---------------------------- MODULE Spec2Model ----------------------------
(***************************************************************************)
(* A model of PatchFetcher: the per-thread fetcher download_mbx_thread,     *)
(* the driver fetch_and_parse_threads with its recovery passes, and the     *)
(* index-page crawler fetch_all_threads, the worker pool over the calls of  *)
(* download_mbx_thread and the fetch-patches command                        *)
(* (src/fetchPatches.py); the mbx parser parse_emails_from_mbx, the         *)
(* aggregator update_patches_data and the walk over the files that feeds    *)
(* it (src/parsePatches.py).                                                *)
(*                                                                          *)
(* Python strings are sequences of one-character strings.  The network and  *)
(* the filesystem are the environment: every request and every write draws  *)
(* its outcome from the set of outcomes the libraries can produce.          *)
(***************************************************************************)
EXTENDS Integers, Sequences, FiniteSets, TLC

(***************************************************************************)
(* Bounds of the model.                                                     *)
(***************************************************************************)
\* longest thread list handed to the fetch stage
MaxThreads == 2
\* random.uniform(0, 1) is drawn from {0, 1/JitterDen, ..., (JitterDen-1)/JitterDen}
JitterDen == 2
\* index pages of the site behind the live head, with the cursors NPages (newest) down to 1
NPages == 3
\* lines of an mbx file after its first boundary line
MaxLines == 4
\* the most messages in a file handed to the aggregator
MaxMsgs == 2
\* the most files in a walk
MaxFiles == 2
\* the most retries the calls of a worker pool make between them
MaxBusy == 1

(***************************************************************************)
(* Characters and string helpers.                                           *)
(***************************************************************************)
LowerChars == <<"a", "b", "c", "d", "e", "f", "g", "h", "i", "j", "k", "l", "m", "n", "o", "p", "q", "r", "s", "t", "u", "v", "w", "x", "y", "z">>

UpperChars == <<"A", "B", "C", "D", "E", "F", "G", "H", "I", "J", "K", "L", "M", "N", "O", "P", "Q", "R", "S", "T", "U", "V", "W", "X", "Y", "Z">>

DigitChars == <<"0", "1", "2", "3", "4", "5", "6", "7", "8", "9">>

Range(s) == {s[i] : i \in DOMAIN s}

\* the characters the class [a-zA-Z0-9-_] of the sanitizing pattern accepts
TitleChars == Range(LowerChars) \cup Range(UpperChars) \cup Range(DigitChars) \cup {"-", "_"}

\* str.upper() on one character
UpperChar(c) ==
    IF c \in Range(LowerChars)
    THEN UpperChars[CHOOSE i \in DOMAIN LowerChars : LowerChars[i] = c]
    ELSE c

\* str.upper()
Upper(s) == [i \in DOMAIN s |-> UpperChar(s[i])]

\* str.lower() on one character
LowerChar(c) ==
    IF c \in Range(UpperChars)
    THEN LowerChars[CHOOSE i \in DOMAIN UpperChars : UpperChars[i] = c]
    ELSE c

\* str.lower()
Lower(s) == [i \in DOMAIN s |-> LowerChar(s[i])]

\* s.startswith(p)
StartsWith(s, p) == Len(s) >= Len(p) /\ SubSeq(s, 1, Len(p)) = p

\* sub in s
Contains(s, sub) == \E i \in 0..(Len(s) - Len(sub)) : SubSeq(s, i + 1, i + Len(sub)) = sub

Strip(s, c) ==
    LET keep == {i \in DOMAIN s : s[i] # c}
    IN  IF keep = {} THEN <<>>
        ELSE LET lo == CHOOSE i \in keep : \A j \in keep : i <= j
                 hi == CHOOSE i \in keep : \A j \in keep : j <= i
             IN  SubSeq(s, lo, hi)

\* s.lstrip(c)
LStrip(s, c) ==
    LET keep == {i \in DOMAIN s : s[i] # c}
    IN  IF keep = {} THEN <<>>
        ELSE SubSeq(s, CHOOSE i \in keep : \A j \in keep : i <= j, Len(s))

\* s.rstrip(c)
RStrip(s, c) ==
    LET keep == {i \in DOMAIN s : s[i] # c}
    IN  IF keep = {} THEN <<>>
        ELSE SubSeq(s, 1, CHOOSE i \in keep : \A j \in keep : j <= i)

\* s.rsplit(c, 1)[0]: the part before the last c, or all of s without any c
RSplitHead(s, c) ==
    LET at == {i \in DOMAIN s : s[i] = c}
    IN  IF at = {} THEN s
        ELSE SubSeq(s, 1, (CHOOSE i \in at : \A j \in at : j <= i) - 1)

\* s.split(c)[-2]: the piece between the last two occurrences of c
SplitSecondLast(s, c) ==
    LET at == {i \in DOMAIN s : s[i] = c}
        last == CHOOSE i \in at : \A j \in at : j <= i
        before == {i \in at : i < last}
        first == IF before = {} THEN 0 ELSE CHOOSE i \in before : \A j \in before : j <= i
    IN  SubSeq(s, first + 1, last - 1)

\* n copies of the character c
Rep(c, n) == [i \in 1..n |-> c]

(***************************************************************************)
(* Python values a call returns.                                            *)
(***************************************************************************)
PyNone == [t |-> "none", v |-> <<>>]

PyStr(s) == [t |-> "str", v |-> s]

\* os.path.abspath(os.path.join(output_dir, d)): never the empty string
PyPath(d) == [t |-> "path", v |-> d]

\* an int
PyInt(n) == [t |-> "int", v |-> <<n>>]

\* a tuple of n items
PyTuple(n) == [t |-> "tuple", v |-> Rep("_", n)]

\* the call did not return: an exception left it
Raised == [t |-> "raised", v |-> <<>>]

\* no call has been made yet
NoCall == [t |-> "nocall", v |-> <<>>]

\* Python's truth value of x, as "if not x" tests it
Truthy(x) ==
    CASE x.t = "none" -> FALSE
      [] x.t = "str" -> x.v # <<>>
      [] x.t = "tuple" -> x.v # <<>>
      [] x.t = "int" -> x.v[1] # 0
      [] OTHER -> TRUE

Skipped == PyStr(<<"s", "k", "i", "p", "p", "e", "d">>)

(***************************************************************************)
(* The threads the crawl may hand to the fetch stage: (url, title).         *)
(***************************************************************************)
ThreadTable ==
    << [url |-> <<"/", "m", "1", "/", "T", "/">>,
        title |-> <<"f", "i", "x", " ", "b", "u", "g">>],
       [url |-> <<"/", "m", "2", "/", "T", "/">>,
        title |-> <<"(", "u", "n", "k", "n", "o", "w", "n", ")">>],
       [url |-> <<"/", "m", "3", "/", "T", "/">>,
        title |-> <<"f", "i", "x", ":", "b", "u", "g">>],
       [url |-> <<"/", "m", "4", "/", "T", "/">>,
        title |-> <<"(", "U", "n", "k", "n", "o", "w", "n", ")", " ">> \o Rep("x", 195)],
       [url |-> <<"/", "m", "5", "/", "T", "/">>,
        title |-> <<"n", "e", "t">>] >>

ThreadIds == DOMAIN ThreadTable

\* the lists of 1..MaxThreads distinct threads, in the order of the table (the crawl's order)
ThreadLists ==
    UNION {{s \in [1..n -> ThreadIds] : \A i, j \in 1..n : i < j => s[i] < s[j]} : n \in 1..MaxThreads}

base_url == <<"h", "/">>

(***************************************************************************)
(* download_mbx_thread: names and paths.                                    *)
(***************************************************************************)
\* max_retries, the default of the parameter
max_retries == 5

\* the length beyond which a title is cut
TitleCap == 200

\* thread_url.rstrip('/').split("/")[-2]
thread_id(thread_url) == SplitSecondLast(RStrip(thread_url, "/"), "/")

\* f"{base_url}{thread_url.lstrip('/')}" with the thread suffix "/T/" replaced by "/t.mbox.gz"
download_url(thread_url) ==
    LET full == base_url \o LStrip(thread_url, "/")
    IN  SubSeq(full, 1, Len(full) - 3) \o <<"/", "t", ".", "m", "b", "o", "x", ".", "g", "z">>

\* the title after the cut at TitleCap characters, back to the last space
truncated_title(thread_title) ==
    IF Len(thread_title) > TitleCap
    THEN RSplitHead(SubSeq(thread_title, 1, TitleCap), " ")
    ELSE thread_title

\* re.sub(r'[^a-zA-Z0-9-_]', '_', thread_title).strip('_')
sanitized_title(thread_title) ==
    LET t == truncated_title(thread_title)
    IN  Strip([i \in DOMAIN t |-> IF t[i] \in TitleChars THEN t[i] ELSE "_"], "_")

\* sanitized_title.upper() == "UNKNOWN"
IsUnknown(san) == Upper(san) = <<"U", "N", "K", "N", "O", "W", "N">>

\* the names download_mbx_thread derives from each thread of the table
ThreadNames ==
    [i \in ThreadIds |->
        [dir |-> sanitized_title(ThreadTable[i].title),
         unknown |-> IsUnknown(sanitized_title(ThreadTable[i].title)),
         id |-> thread_id(ThreadTable[i].url),
         url |-> download_url(ThreadTable[i].url),
         long |-> Len(ThreadTable[i].title) > TitleCap]]


(***************************************************************************)
(* State.                                                                   *)
(***************************************************************************)
VARIABLES
    \* fetch_and_parse_threads
    thread_data,        \* the list of threads the crawl returned
    run,                \* "first", or "again" once the fetch stage is re-run over the same output_dir
    phase,              \* "main", "recovery", "done" or "crashed" (an exception left the run)
    idx,                \* position of the running for loop in its list
    threadsWithErrors,  \* the failure list
    withErrors,         \* the failures of the recovery passes
    aliased,            \* threadsWithErrors and withErrors name the same list object
    repeatCount,        \* recovery passes left
    \* the filesystem under output_dir
    dirs,               \* the thread directories that exist
    files,              \* the files in them: [dir, name, content]
    \* the running download_mbx_thread call
    active,             \* the call is inside its retry loop
    thread,             \* the thread of the current (or last) call
    attempt,            \* the loop variable
    response,           \* the local variable response: "unbound" or the status of the last response
    wait_time,          \* the last backoff delay slept, in 1/JitterDen seconds
    ret,                \* what the last call returned
    \* observers of the run (not program state)
    outcome,            \* the outcome of the latest attempt of the current (or last) call
    only503,            \* every attempt of that call before the latest was answered 503
    requests,           \* requests.get calls of the current (or last) call
    touched,            \* the current (or last) call created a directory or changed a file
    again,              \* an earlier call for the same thread returned its directory
    succeeded,          \* the threads for which some call returned the directory
    passes,             \* recovery passes completed in this run
    passFailed,         \* calls of the current (or last) recovery pass that returned None
    \* the site and the cache file
    site,               \* the thread links on each index page, by cursor
    cacheFile,          \* the cache file: a list of <<page, links on the page>>
    \* fetch_all_threads
    crun,               \* "first", or "again" once the site is crawled a second time
    cpc,                \* "idle", "loop", "returned" or "raised" (an exception left the crawl)
    start_date,         \* the start cursor, Base when none is given
    cutoff_date,        \* the cutoff: a page older than it ends the crawl
    cacheFileName,      \* whether a cache file is named (FALSE under --no-cache)
    cache,              \* the list read from the cache file, appended to by the crawl
    crawl_data,         \* thread_data of fetch_all_threads: the accumulated links
    cachedTopics,       \* the urls seen so far
    newestCachedPage,
    oldestCachedPage,
    checkForCachedData,
    next_page,          \* the cursor of the page to fetch
    soup,               \* the local variable soup: <<>> when unbound, else <<cursor of the parsed page>>
    \* observers of the crawl (not program state)
    discovered,         \* links this crawl found on pages and had not seen before
    writes,             \* times this crawl wrote the cache file
    page_outcome,       \* what the latest get_page of this crawl met, "none" before the first
    slept,              \* the seconds the latest pass of the loop slept before the next
    exit,               \* how the crawl ended: "cutoff", "no_next", "error", or "" while it runs
    prev,               \* the arguments of the crawl before this one, and whether it ended without an exception
    \* the fetch-patches command
    args_start_date,    \* --start-date: <<>> when not given, else <<the date>>
    args_end_date,      \* --end-date: <<the date>>
    mpc,                \* "idle", "cli", "crawling", or the exception that left the command
    \* parse_emails_from_mbx
    mbx,                \* the file: its lines, each an index into MbxLines
    line_no,            \* the line the file iterator gives next
    ppc,                \* "idle", "scan", "done" (the call returned) or "aggregated"
    caught,             \* the exception the handler of lines 176-177 caught, "none" without one
    current_email,      \* <<>> for None, else <<the dict of the open message>>
    emails,             \* the list the call returns
    name_to_emails,     \* data_store.name_to_emails, as the set of <<name, email>> pairs
    email_to_name,      \* data_store.email_to_name, as the set of <<email, name>> pairs
    \* update_patches_data
    thread_initiators,      \* data_store.thread_initiators: author -> threads initiated
    thread_responders,      \* data_store.thread_responders: author -> set of thread ids
    thread_response_counts, \* data_store.thread_response_counts: thread id -> responses
    thread_times,           \* data_store.thread_times: thread id -> <<start, last response>>
    patches_data_buffer,    \* the rows appended so far
    \* walk_and_process
    walked,             \* the files the loop of lines 400-403 has gone through
    accepted,           \* observer: those of them that had a non-empty thread id
    \* the worker pool of lines 330-337
    pool,               \* for each worker, the locals of its download_mbx_thread call
    busy,               \* the retries the pool has made so far
    overlapped,         \* observer: a worker took a step while the other was inside its call
    fs0,                \* observer: the directories and files under output_dir when the pool began
    \* observers of the parse (not program state)
    current_at,         \* the line of the boundary that opened current_email, 0 without one
    emails_at,          \* for each entry of emails, the line of the boundary that opened it
    buffer_idx          \* for each row of patches_data_buffer, the index in emails of its message

driverVars == <<phase, idx, threadsWithErrors, withErrors, aliased, repeatCount, passes, passFailed>>

fsVars == <<dirs, files>>

callVars == <<active, thread, attempt, response, wait_time, ret, outcome, only503, requests, touched, again, succeeded>>

fetchVars == <<thread_data, run, driverVars, fsVars, callVars>>

crawlVars == <<site, cacheFile, crun, cpc, start_date, cutoff_date, cacheFileName, cache, crawl_data,
               cachedTopics, newestCachedPage, oldestCachedPage, checkForCachedData, next_page, soup,
               discovered, writes, page_outcome, slept, exit, prev, args_start_date, args_end_date, mpc>>

mainVars == <<args_start_date, args_end_date, mpc>>

aggVars == <<thread_initiators, thread_responders, thread_response_counts, thread_times,
             patches_data_buffer, buffer_idx, walked, accepted>>

parseVars == <<mbx, line_no, ppc, caught, current_email, emails, name_to_emails, email_to_name,
               current_at, emails_at, aggVars>>

poolVars == <<pool, busy, overlapped, fs0>>

vars == <<fetchVars, crawlVars, parseVars, poolVars>>

(***************************************************************************)
(* The filesystem.                                                          *)
(***************************************************************************)
MbxName(tid) == [kind |-> "mbx", id |-> tid]

GzName(tid) == [kind |-> "mbx.gz", id |-> tid]

ErrorName == [kind |-> "error.txt", id |-> <<>>]

InfoName == [kind |-> "download_info.txt", id |-> <<>>]

Content(cls, msg, url) == [cls |-> cls, msg |-> msg, url |-> url]

\* os.remove, or the state before open(..., "w")
RemoveFile(F, d, name) == {f \in F : ~(f.dir = d /\ f.name = name)}

\* open(..., "w") and write
WriteFile(F, d, name, content) ==
    RemoveFile(F, d, name) \cup {[dir |-> d, name |-> name, content |-> content]}

\* a skip test that looks for the compressed file instead of the decompressed one
HasMbxWrongSuffix(F, d) == \E f \in F : f.dir = d /\ f.name.kind = "mbx.gz"

\* any(fname.endswith('.mbx') for fname in os.listdir(thread_dir))
HasMbx(F, d) == \E f \in F : f.dir = d /\ f.name.kind = "mbx"

HasFile(F, d, name) == \E f \in F : f.dir = d /\ f.name = name

(***************************************************************************)
(* fetch_and_parse_threads: what the driver does with a call's result.     *)
(***************************************************************************)
\* repeatCount=3
RepeatCountInit == 3

\* process_thread returns the pair (retVal, thread)
process_thread(r) == PyTuple(2)

\* a main pass that takes everything but a directory path for a failure
MainFailedUnlessPath(r) == r.t # "path"

\* main pass: thread_dir, threadInfo = process_thread(...); if not thread_dir
MainFailed(r) == ~Truthy(r)

\* recovery pass: if not process_thread(threadInfo)
RecoveryFailed(r) == ~Truthy(process_thread(r))

\* the for loops and the while loop, from the return of a call to the next call
Deliver(r, cur) ==
    IF r = Raised
    THEN /\ phase' = "crashed"
         /\ UNCHANGED <<idx, threadsWithErrors, withErrors, aliased, repeatCount, passes, passFailed>>
    ELSE IF phase = "main"
    THEN LET twe == IF MainFailed(r) THEN Append(threadsWithErrors, cur) ELSE threadsWithErrors
         IN  /\ threadsWithErrors' = twe
             /\ UNCHANGED <<aliased, passes, passFailed>>
             /\ IF idx < Len(thread_data)
                THEN /\ idx' = idx + 1
                     /\ UNCHANGED <<phase, withErrors, repeatCount>>
                ELSE IF twe # <<>>
                THEN /\ phase' = "recovery"
                     /\ repeatCount' = RepeatCountInit
                     /\ withErrors' = <<>>
                     /\ idx' = 1
                ELSE /\ phase' = "done"
                     /\ UNCHANGED <<idx, withErrors, repeatCount>>
    ELSE LET failed == RecoveryFailed(r)
             we == IF failed THEN Append(withErrors, cur) ELSE withErrors
             twe == IF failed /\ aliased THEN Append(threadsWithErrors, cur) ELSE threadsWithErrors
             pf == passFailed + (IF r = PyNone THEN 1 ELSE 0)
             more == we # <<>> /\ repeatCount - 1 # 0
         IN  /\ withErrors' = we
             /\ IF idx < Len(twe)
                THEN /\ idx' = idx + 1
                     /\ threadsWithErrors' = twe
                     /\ passFailed' = pf
                     /\ UNCHANGED <<phase, aliased, repeatCount, passes>>
                ELSE /\ threadsWithErrors' = we
                     /\ aliased' = TRUE
                     /\ repeatCount' = repeatCount - 1
                     /\ passes' = passes + 1
                     /\ idx' = 1
                     /\ passFailed' = IF more THEN 0 ELSE pf
                     /\ phase' = IF more THEN "recovery" ELSE "done"

(***************************************************************************)
(* download_mbx_thread.                                                     *)
(***************************************************************************)
\* what one pass of the retry loop can meet
Outcomes == {"ok", "s503", "s404", "noresp", "body_err", "fs_write", "fs_gunzip", "gunzip_eof"}

\* the outcomes that reach the handler of requests.exceptions.RequestException
RequestErrors == {"s503", "s404", "noresp", "body_err"}

\* response after requests.get: a failed connection or a timeout assigns nothing
ResponseAfter(o, resp) ==
    CASE o \in {"s503", "s404"} -> o
      [] o = "noresp" -> resp
      [] OTHER -> "s200"

\* a retry test that stops one attempt early
ShouldRetryOneLess(resp, a) == resp = "s503" /\ a < max_retries - 1

\* a retry test that retries every HTTP error status
ShouldRetryAnyStatus(resp, a) == a < max_retries

\* response.status_code == 503 and attempt < max_retries
ShouldRetry(resp, a) == resp = "s503" /\ a < max_retries

\* 2 ** n
Pow2(n) == IF n = 0 THEN 1 ELSE IF n = 1 THEN 2 ELSE IF n = 2 THEN 4 ELSE IF n = 3 THEN 8
           ELSE IF n = 4 THEN 16 ELSE IF n = 5 THEN 32 ELSE 64

\* a backoff that does not grow: 2 + random.uniform(0, 1)
WaitTimeFlat(a, j) == 2 * JitterDen + j

\* (2 ** attempt) + random.uniform(0, 1), in 1/JitterDen seconds
WaitTime(a, j) == Pow2(a) * JitterDen + j

\* the files after the body of the try block, as far as it got
BodyFiles(F, d, tid, url, long, o, gzLeft) ==
    CASE o = "ok" ->
            WriteFile(WriteFile(RemoveFile(F, d, GzName(tid)), d, MbxName(tid), Content("data", "full", <<>>)),
                      d, InfoName,
                      Content("info", IF long THEN "truncated" ELSE "", url))
      [] o = "body_err" -> WriteFile(F, d, GzName(tid), Content("data", "partial", <<>>))
      [] o = "fs_write" ->
            IF gzLeft THEN WriteFile(F, d, GzName(tid), Content("data", "partial", <<>>)) ELSE F
      [] o \in {"fs_gunzip", "gunzip_eof"} ->
            WriteFile(WriteFile(F, d, GzName(tid), Content("data", "full", <<>>)),
                      d, MbxName(tid), Content("data", "partial", <<>>))
      [] OTHER -> F

\* the error note each handler writes
ErrorNote(o, url) ==
    CASE o \in RequestErrors -> Content("HTTP Error", o, url)
      [] o \in {"fs_write", "fs_gunzip"} -> Content("File Error", o, <<>>)
      [] OTHER -> Content("Error", o, url)

\* the call returns r to the driver
Return(r, cur) ==
    /\ ret' = r
    /\ active' = FALSE
    /\ response' = "unbound"
    /\ wait_time' = 0
    /\ succeeded' = IF r.t = "path" THEN succeeded \cup {cur} ELSE succeeded
    /\ Deliver(r, cur)

\* the call up to the retry loop
CallBegin ==
    /\ UNCHANGED <<crawlVars, parseVars, poolVars>>
    /\ phase \in {"main", "recovery"}
    /\ ~active
    /\ LET cur == IF phase = "main" THEN thread_data[idx] ELSE threadsWithErrors[idx]
           san == ThreadNames[cur].dir
       IN  /\ thread' = cur
           /\ outcome' = "none"
           /\ only503' = TRUE
           /\ requests' = 0
           /\ touched' = (~ThreadNames[cur].unknown /\ san \notin dirs)
           /\ again' = (cur \in succeeded)
           /\ attempt' = 0
           /\ UNCHANGED <<thread_data, run, files>>
           /\ IF ThreadNames[cur].unknown
              THEN /\ UNCHANGED dirs
                   /\ Return(Skipped, cur)
              ELSE /\ dirs' = dirs \cup {san}
                   /\ IF HasMbx(files, san)
                      THEN Return(PyPath(san), cur)
                      ELSE /\ active' = TRUE
                           /\ UNCHANGED <<response, wait_time, ret, succeeded, driverVars>>

\* one pass of the retry loop: the request, the writes, and the handler the outcome reaches
Attempt ==
    /\ UNCHANGED <<crawlVars, parseVars, poolVars>>
    /\ active
    /\ \E o \in Outcomes, j \in 0..(JitterDen - 1), gzLeft \in BOOLEAN :
         LET t == ThreadNames[thread]
             d == t.dir
             tid == t.id
             url == t.url
             cleared == RemoveFile(files, d, ErrorName)
             resp == ResponseAfter(o, response)
             body == BodyFiles(cleared, d, tid, url, t.long, o, gzLeft)
             unbound == o \in RequestErrors /\ resp = "unbound"
             retry == o \in RequestErrors /\ ~unbound /\ ShouldRetry(resp, attempt)
             noted == IF o = "ok" \/ unbound \/ retry THEN body
                      ELSE WriteFile(body, d, ErrorName, ErrorNote(o, url))
         IN  /\ (gzLeft => o = "fs_write")
             /\ (j # 0 => retry)
             /\ outcome' = o
             /\ only503' = (only503 /\ outcome \in {"none", "s503"})
             /\ requests' = requests + 1
             /\ files' = noted
             /\ touched' = (touched \/ noted # files)
             /\ UNCHANGED <<thread_data, run, dirs, thread, again>>
             /\ IF o = "ok"
                THEN /\ UNCHANGED attempt
                     /\ Return(PyPath(d), thread)
                ELSE IF unbound
                THEN /\ UNCHANGED attempt
                     /\ Return(Raised, thread)
                ELSE IF retry
                THEN /\ response' = resp
                     /\ wait_time' = WaitTime(attempt, j)
                     /\ attempt' = attempt + 1
                     /\ UNCHANGED <<active, ret, succeeded, driverVars>>
                ELSE /\ UNCHANGED attempt
                     /\ Return(PyNone, thread)

\* the fetch stage is run again over the same output directory
Rerun ==
    /\ UNCHANGED <<crawlVars, parseVars, poolVars>>
    /\ phase \in {"done", "crashed"}
    /\ run = "first"
    /\ run' = "again"
    /\ phase' = "main"
    /\ idx' = 1
    /\ threadsWithErrors' = <<>>
    /\ withErrors' = <<>>
    /\ aliased' = FALSE
    /\ repeatCount' = 0
    /\ passes' = 0
    /\ passFailed' = 0
    /\ active' = FALSE
    /\ UNCHANGED <<thread_data, fsVars, thread, attempt, response, wait_time, ret, outcome, only503, requests,
                   touched, again, succeeded>>

(***************************************************************************)
(* The worker pool (lines 330-337): two download_mbx_thread calls at once.  *)
(***************************************************************************)
\* ThreadPoolExecutor(max_workers=2)
Workers == {1, 2}

\* the pairs of threads a pool of two works on, in the order of the table
PoolPairs == {s \in [1..2 -> ThreadIds] : s[1] < s[2]}

\* a pool in which every thread is written to output_dir itself
thread_dir_shared(t) == <<>>

\* os.path.join(output_dir, sanitized_title), as the name under output_dir
thread_dir(t) == ThreadNames[t].dir

\* the other worker is inside its call
OtherInside(w) == \E v \in Workers : v # w /\ pool[v].pc \notin {"start", "done"}

\* worker w goes on as rec; the rest of the fetch stage stands still
Work(w, rec) ==
    /\ pool' = [pool EXCEPT ![w] = rec]
    /\ overlapped' = (overlapped \/ OtherInside(w))
    /\ UNCHANGED <<fs0, thread_data, run, driverVars, callVars, crawlVars, parseVars>>

\* lines 74-90: the names, the test for "unknown", os.makedirs
PoolBegin ==
    \E w \in Workers :
        /\ pool[w].pc = "start"
        /\ IF ThreadNames[thread_data[w]].unknown
           THEN /\ Work(w, [pool[w] EXCEPT !.pc = "done", !.ret = Skipped])
                /\ UNCHANGED dirs
           ELSE /\ Work(w, [pool[w] EXCEPT !.pc = "listdir"])
                /\ dirs' = dirs \cup {thread_dir(thread_data[w])}
        /\ UNCHANGED <<files, busy>>

\* lines 96-97: os.listdir and the test for a file that ends in .mbx
PoolList ==
    \E w \in Workers :
        /\ pool[w].pc = "listdir"
        /\ IF HasMbx(files, thread_dir(thread_data[w]))
           THEN Work(w, [pool[w] EXCEPT !.pc = "done", !.ret = PyPath(thread_dir(thread_data[w]))])
           ELSE Work(w, [pool[w] EXCEPT !.pc = "remove"])
        /\ UNCHANGED <<dirs, files, busy>>

\* lines 103-108: os.remove(error_log_path)
PoolRemove ==
    \E w \in Workers :
        /\ pool[w].pc = "remove"
        /\ files' = RemoveFile(files, thread_dir(thread_data[w]), ErrorName)
        /\ Work(w, [pool[w] EXCEPT !.pc = "get"])
        /\ UNCHANGED <<dirs, busy>>

\* lines 110-111 and, for an HTTP error or no answer, the handler's test of line 132
PoolGet ==
    \E w \in Workers, o \in Outcomes, gzLeft \in BOOLEAN :
        LET resp == ResponseAfter(o, pool[w].response)
            failed == o \in RequestErrors \ {"body_err"}
            unbound == failed /\ resp = "unbound"
            retry == failed /\ ~unbound /\ ShouldRetry(resp, pool[w].attempt)
            rec == [pool[w] EXCEPT !.response = resp, !.o = o, !.gzLeft = gzLeft,
                                   !.met = Append(@, <<o, gzLeft>>)]
        IN  /\ pool[w].pc = "get"
            /\ (gzLeft => o = "fs_write")
            /\ (retry => busy < MaxBusy)
            /\ busy' = IF retry THEN busy + 1 ELSE busy
            /\ IF unbound THEN Work(w, [rec EXCEPT !.pc = "done", !.ret = Raised])
               ELSE IF retry THEN Work(w, [rec EXCEPT !.pc = "remove", !.attempt = @ + 1])
               ELSE IF failed THEN Work(w, [rec EXCEPT !.pc = "note"])
               ELSE Work(w, [rec EXCEPT !.pc = "gz"])
            /\ UNCHANGED <<dirs, files>>

\* lines 114-115: the compressed file is opened and response.content written
PoolWriteGz ==
    \E w \in Workers :
        LET d == thread_dir(thread_data[w])
            gz == GzName(ThreadNames[thread_data[w]].id)
            o == pool[w].o
        IN  /\ pool[w].pc = "gz"
            /\ files' = IF o = "body_err" \/ (o = "fs_write" /\ pool[w].gzLeft)
                        THEN WriteFile(files, d, gz, Content("data", "partial", <<>>))
                        ELSE IF o = "fs_write" THEN files
                        ELSE WriteFile(files, d, gz, Content("data", "full", <<>>))
            /\ Work(w, [pool[w] EXCEPT !.pc = IF o \in {"body_err", "fs_write"} THEN "note" ELSE "mbx"])
            /\ UNCHANGED <<dirs, busy>>

\* lines 118-119: the .mbx file is opened and the archive copied into it
PoolGunzip ==
    \E w \in Workers :
        LET d == thread_dir(thread_data[w])
            mbxName == MbxName(ThreadNames[thread_data[w]].id)
            bad == pool[w].o \in {"fs_gunzip", "gunzip_eof"}
        IN  /\ pool[w].pc = "mbx"
            /\ files' = WriteFile(files, d, mbxName,
                                  Content("data", IF bad THEN "partial" ELSE "full", <<>>))
            /\ Work(w, [pool[w] EXCEPT !.pc = IF bad THEN "note" ELSE "rmgz"])
            /\ UNCHANGED <<dirs, busy>>

\* line 122: os.remove(mbx_gz_file_path)
PoolRemoveGz ==
    \E w \in Workers :
        /\ pool[w].pc = "rmgz"
        /\ files' = RemoveFile(files, thread_dir(thread_data[w]), GzName(ThreadNames[thread_data[w]].id))
        /\ Work(w, [pool[w] EXCEPT !.pc = "info"])
        /\ UNCHANGED <<dirs, busy>>

\* lines 124-129: download_info.txt, return thread_dir
PoolInfo ==
    \E w \in Workers :
        LET t == ThreadNames[thread_data[w]]
        IN  /\ pool[w].pc = "info"
            /\ files' = WriteFile(files, thread_dir(thread_data[w]), InfoName,
                                  Content("info", IF t.long THEN "truncated" ELSE "", t.url))
            /\ Work(w, [pool[w] EXCEPT !.pc = "done", !.ret = PyPath(thread_dir(thread_data[w]))])
            /\ UNCHANGED <<dirs, busy>>

\* lines 138-154: the handler writes error.txt and returns None
PoolNote ==
    \E w \in Workers :
        /\ pool[w].pc = "note"
        /\ files' = WriteFile(files, thread_dir(thread_data[w]), ErrorName,
                              ErrorNote(pool[w].o, ThreadNames[thread_data[w]].url))
        /\ Work(w, [pool[w] EXCEPT !.pc = "done", !.ret = PyNone])
        /\ UNCHANGED <<dirs, busy>>

\* lines 333-337: executor.map gives the results in the order of the threads;
\* an exception of the call is raised again here
Collect ==
    /\ phase = "main"
    /\ idx \in Workers
    /\ pool[idx].pc = "done"
    /\ IF pool[idx].ret = Raised
       THEN /\ phase' = "crashed"
            /\ UNCHANGED <<idx, threadsWithErrors>>
       ELSE /\ threadsWithErrors' = IF MainFailed(pool[idx].ret)
                                    THEN Append(threadsWithErrors, thread_data[idx])
                                    ELSE threadsWithErrors
            /\ idx' = idx + 1
            /\ phase' = IF idx = 2 THEN "done" ELSE phase
    /\ UNCHANGED <<thread_data, run, withErrors, aliased, repeatCount, passes, passFailed, fsVars,
                   callVars, crawlVars, parseVars, poolVars>>

RECURSIVE RunAttempts(_, _, _, _, _)
\* the retry loop of one call run alone from attempt k on, on the files F, for
\* the answers met: the files it leaves and what it returns
RunAttempts(F, t, met, k, resp) ==
    IF k > Len(met) THEN [files |-> F, ret |-> NoCall]
    ELSE
    LET d == thread_dir(t)
        o == met[k][1]
        r == ResponseAfter(o, resp)
        body == BodyFiles(RemoveFile(F, d, ErrorName), d, ThreadNames[t].id, ThreadNames[t].url,
                          ThreadNames[t].long, o, met[k][2])
        unbound == o \in RequestErrors /\ r = "unbound"
        retry == o \in RequestErrors /\ ~unbound /\ ShouldRetry(r, k - 1)
    IN  IF o = "ok" THEN [files |-> body, ret |-> PyPath(d)]
        ELSE IF unbound THEN [files |-> body, ret |-> Raised]
        ELSE IF retry THEN RunAttempts(body, t, met, k + 1, r)
        ELSE [files |-> WriteFile(body, d, ErrorName, ErrorNote(o, ThreadNames[t].url)), ret |-> PyNone]

\* one call run alone on the directories D and the files F
RunCall(D, F, t, met) ==
    IF ThreadNames[t].unknown THEN [dirs |-> D, files |-> F, ret |-> Skipped]
    ELSE IF HasMbx(F, thread_dir(t))
    THEN [dirs |-> D \cup {thread_dir(t)}, files |-> F, ret |-> PyPath(thread_dir(t))]
    ELSE LET run1 == RunAttempts(F, t, met, 1, "unbound")
         IN  [dirs |-> D \cup {thread_dir(t)}, files |-> run1.files, ret |-> run1.ret]

(***************************************************************************)
(* fetch_all_threads: the site.                                             *)
(***************************************************************************)
\* the cursor of the unparameterized base page, base_url
Base == 0

Cursors == Base..NPages

\* the links a page can show: none, its own thread, or also the youngest thread of the page before
PageLinks(c) ==
    IF c = Base THEN {<<>>, <<NPages + 1>>} ELSE {<<>>, <<c>>, <<c + 1, c>>}

Sites == {f \in [Cursors -> UNION {PageLinks(c) : c \in Cursors}] : \A c \in Cursors : f[c] \in PageLinks(c)}

\* soup.select_one('a[rel="next"]'): <<>> when the page has none, else <<the cursor in its href>>
next_link(c) ==
    IF c = Base THEN <<NPages>> ELSE IF c > 1 THEN <<c - 1>> ELSE <<>>

\* extract_topic_threads(soup)
extract_topic_threads(st, c) == st[c]

(***************************************************************************)
(* fetch_all_threads: reading the cache.                                    *)
(***************************************************************************)
\* oldestCachedPage before any page is read: above every cursor
OldestInit == NPages + 2

\* a filter that drops only what was seen before seq, not the repeats inside seq
DedupForgetful(seq, seen, i) == SelectSeq(seq, LAMBDA u : u \notin seen)

RECURSIVE Dedup(_, _, _)
\* the links of seq not in seen, each url once, in order
Dedup(seq, seen, i) ==
    IF i > Len(seq) THEN <<>>
    ELSE IF seq[i] \in seen THEN Dedup(seq, seen, i + 1)
    ELSE <<seq[i]>> \o Dedup(seq, seen \cup {seq[i]}, i + 1)

RECURSIVE CacheLinks(_, _)
\* every link of the first n cache entries, in order
CacheLinks(c, n) ==
    IF n = 0 THEN <<>> ELSE CacheLinks(c, n - 1) \o c[n][2]

\* thread_data after the loop over the cache
LoadThreadData(c) == Dedup(CacheLinks(c, Len(c)), {}, 1)

CachePages(c) == {c[i][1] : i \in DOMAIN c}

Max(S) == CHOOSE x \in S : \A y \in S : y <= x

Min(S) == CHOOSE x \in S : \A y \in S : x <= y

LoadNewest(c) == Max(CachePages(c) \cup {0})

LoadOldest(c) == Min(CachePages(c) \cup {OldestInit})

(***************************************************************************)
(* fetch_all_threads: the crawl.                                            *)
(***************************************************************************)
\* json_file_to_list(cacheFileName)
json_file_to_list(named, file) == IF named THEN file ELSE <<>>

\* the arguments a run can have: fetch_and_parse_threads wants the start newer than the cutoff
ArgPairs ==
    {<<s, e>> \in Cursors \X Cursors : s = Base \/ e < s}

NoPrev == [start |-> Base, cutoff |-> Base, named |-> FALSE, clean |-> FALSE, any |-> FALSE]

\* fetch_all_threads(base_url, start_date, oldest_date, cacheFileName) up to the
\* loop, for the arguments a = <<start_date, oldest_date>>: the cursor, the cache
StartCrawlWith(a) ==
    /\ cpc \in {"idle", "returned", "raised"}
    /\ (cpc = "idle" \/ crun = "first")
    /\ crun' = IF cpc = "idle" THEN "first" ELSE "again"
    /\ prev' = IF cpc = "idle" THEN NoPrev
               ELSE [start |-> start_date, cutoff |-> cutoff_date, named |-> cacheFileName,
                     clean |-> (cpc = "returned" /\ exit # "error"), any |-> TRUE]
    /\ LET c == json_file_to_list(cacheFileName, cacheFile)
       IN  /\ start_date' = a[1]
           /\ cutoff_date' = a[2]
           /\ next_page' = a[1]
           /\ cache' = c
           /\ crawl_data' = LoadThreadData(c)
           /\ cachedTopics' = Range(LoadThreadData(c))
           /\ newestCachedPage' = LoadNewest(c)
           /\ oldestCachedPage' = LoadOldest(c)
           /\ checkForCachedData' = (c # <<>>)
    /\ soup' = <<>>
    /\ cpc' = "loop"
    /\ discovered' = {}
    /\ writes' = 0
    /\ page_outcome' = "none"
    /\ slept' = 0
    /\ exit' = ""
    /\ UNCHANGED <<site, cacheFile, cacheFileName, fetchVars, parseVars, poolVars>>

\* the call up to the loop, for any arguments that pass the validation
StartCrawl ==
    /\ \E a \in ArgPairs : StartCrawlWith(a)
    /\ UNCHANGED mainVars

\* what get_page(next_page) can meet
PageOutcomes == {"ok", "s503", "http_error", "conn_error"}

\* the delay before a page that answered 503 is asked for again, in seconds
read_http_sleep == 10

\* a loop that asks again at once
SleepAfterNone(o) == 0

\* time.sleep(read_http_sleep) in the 503 branch, no sleep in the others
SleepAfter(o) == IF o = "s503" THEN read_http_sleep ELSE 0

\* a cache that also takes the base page
ShouldWriteCacheBaseToo(named, needsUpdate, page) == named /\ needsUpdate

\* a cache that is rewritten after every page but the base page
ShouldWriteCacheAlways(named, needsUpdate, page) == named /\ page # Base

\* if cacheFileName and cacheFileNeedsUpdate and not next_page == base_url
ShouldWriteCache(named, needsUpdate, page) == named /\ needsUpdate /\ page # Base

\* the rest of a pass of the loop once soup holds page: the links, the cache, the next link
ProcessPage(page) ==
    LET topic_threads == extract_topic_threads(site, page)
        fresh == Dedup(topic_threads, cachedTopics, 1)
        cacheFileNeedsUpdate == fresh # <<>>
        doWrite == ShouldWriteCache(cacheFileName, cacheFileNeedsUpdate, next_page)
        appended == Append(cache, <<next_page, topic_threads>>)
        nl == next_link(page)
        skip == nl # <<>> /\ checkForCachedData /\ nl[1] < newestCachedPage
        page_date == IF skip THEN oldestCachedPage ELSE nl[1]
    IN  /\ soup' = <<page>>
        /\ crawl_data' = crawl_data \o fresh
        /\ cachedTopics' = cachedTopics \cup Range(fresh)
        /\ discovered' = discovered \cup Range(fresh)
        /\ cache' = IF doWrite THEN appended ELSE cache
        /\ cacheFile' = IF doWrite THEN appended ELSE cacheFile
        /\ writes' = IF doWrite THEN writes + 1 ELSE writes
        /\ IF nl = <<>>
           THEN /\ cpc' = "returned"
                /\ exit' = "no_next"
                /\ UNCHANGED <<next_page, checkForCachedData>>
           ELSE /\ next_page' = page_date
                /\ checkForCachedData' = (checkForCachedData /\ ~skip)
                /\ IF page_date < cutoff_date
                   THEN cpc' = "returned" /\ exit' = "cutoff"
                   ELSE UNCHANGED <<cpc, exit>>

\* one pass of the while loop
CrawlStep ==
    /\ cpc = "loop"
    /\ UNCHANGED <<site, crun, start_date, cutoff_date, cacheFileName, newestCachedPage, oldestCachedPage,
                   prev, mainVars, fetchVars, parseVars, poolVars>>
    /\ \E o \in PageOutcomes :
         /\ page_outcome' = o
         /\ slept' = SleepAfter(o)
         /\ IF o = "s503"
            THEN UNCHANGED <<cacheFile, cpc, cache, crawl_data, cachedTopics, checkForCachedData, next_page,
                             soup, discovered, writes, exit>>
            ELSE IF o = "conn_error"
            THEN /\ cpc' = "returned"
                 /\ exit' = "error"
                 /\ UNCHANGED <<cacheFile, cache, crawl_data, cachedTopics, checkForCachedData, next_page,
                                soup, discovered, writes>>
            ELSE IF o = "http_error" /\ soup = <<>>
            THEN /\ cpc' = "raised"
                 /\ exit' = "error"
                 /\ UNCHANGED <<cacheFile, cache, crawl_data, cachedTopics, checkForCachedData, next_page,
                                soup, discovered, writes>>
            ELSE ProcessPage(IF o = "ok" THEN next_page ELSE soup[1])

(***************************************************************************)
(* The fetch-patches command: the arguments and their validation.           *)
(***************************************************************************)
\* the dates a command line can name, as the cursors of the pages of those days
CliDates == 1..NPages

\* datetime.now(): after every page of the site
Now == NPages + 1

\* fetch_and_parse_threads(base_url, start_date, oldest_date, ...), lines 295-304:
\* strptime of None raises TypeError, start_date_obj <= oldest_date_obj raises
\* ValueError; else the arguments fetch_all_threads is called with at line 308
Validate(startArg, oldestArg) ==
    IF oldestArg = <<>> THEN [exc |-> "TypeError", start |-> Base, cutoff |-> Base]
    ELSE LET start_date_obj == IF startArg # <<>> THEN startArg[1] ELSE Now
         IN  IF start_date_obj <= oldestArg[1]
             THEN [exc |-> "ValueError", start |-> Base, cutoff |-> Base]
             ELSE [exc |-> "none", start |-> IF startArg # <<>> THEN startArg[1] ELSE Base,
                   cutoff |-> oldestArg[1]]

\* line 430: fetch_and_parse_threads(args.base_url, args.end_date, args.start_date, ...),
\* up to the loop of fetch_all_threads
Main ==
    /\ mpc = "cli"
    /\ \E v \in {Validate(args_end_date, args_start_date)} :
         IF v.exc # "none"
         THEN /\ mpc' = v.exc
              /\ UNCHANGED <<site, cacheFile, crun, cpc, start_date, cutoff_date, cacheFileName, cache,
                             crawl_data, cachedTopics, newestCachedPage, oldestCachedPage,
                             checkForCachedData, next_page, soup, discovered, writes, page_outcome,
                             slept, exit, prev, fetchVars, parseVars, poolVars>>
         ELSE /\ mpc' = "crawling"
              /\ StartCrawlWith(<<v.start, v.cutoff>>)
    /\ UNCHANGED <<args_start_date, args_end_date>>

(***************************************************************************)
(* parse_emails_from_mbx (src/parsePatches.py): the lines of a file.        *)
(***************************************************************************)
\* the lines an mbx file is made of, without their line ends
MbxLines ==
    << <<"F", "r", "o", "m", " ", "m", "b", "o", "x", "r", "d", "@", "z", " ", "T">>,
       <<"F", "r", "o", "m", ":", " ", "a", "l", " ", "<", "A", "@", "x", ">">>,
       <<"F", "r", "o", "m", ":", " ", "<", "b", "@", "x", ">">>,
       <<"F", "r", "o", "m", ":", " ", "s", "y", "z", "b", "o", "t", "+", "1", " ", "<", "s", "@", "x", ">">>,
       <<"S", "u", "b", "j", "e", "c", "t", ":", " ", "s">>,
       <<"R", "e", "v", "i", "e", "w", "e", "d", "-", "b", "y", ":", " ", "c", "y", " ", "<", "c", "@", "z", ">">>,
       <<>>,
       <<" ", "t">>,
       <<"T", "o", ":", " ", "b", "o">>,
       <<"D", "a", "t", "e", ":", " ", "2", " ", "J", "a", "n", " ", "1", "9", "7", "0">>,
       <<"T", "o", ":", " ", "c", "y", " ", "<", "a", "@", "x", ">">> >>

\* the files: empty, or a boundary line and up to MaxLines lines after it
MbxFiles ==
    {<<>>} \cup {<<1>> \o t : t \in UNION {[1..n -> DOMAIN MbxLines] : n \in 0..MaxLines}}

BoundaryMark == <<"F", "r", "o", "m", " ", "m", "b", "o", "x", "r", "d", "@", "z">>

FieldFrom == <<"F", "r", "o", "m">>

FieldTo == <<"T", "o">>

FieldDate == <<"D", "a", "t", "e">>

FieldSubject == <<"S", "u", "b", "j", "e", "c", "t">>

FieldReviewedBy == <<"R", "e", "v", "i", "e", "w", "e", "d", "-", "b", "y">>

\* field_name + ":"
Prefix(field_name) == field_name \o <<":">>

skipList == <<<<"s", "y", "z", "b", "o", "t">>, <<"p", "a", "t", "c", "h", "w", "o", "r", "k", "-", "b", "o", "t">>>>

\* the address put in name_to_emails for a sender without one
PlaceholderEmail == <<"u", "n", "k", "n", "o", "w", "n", "@", "e", "x", "a", "m", "p", "l", "e", ".", "c", "o", "m">>

\* extract_field(line, field_name): (name, email), (content, None) or (None, None)
extract_field(line, field_name) ==
    LET l == Strip(line, " ")
    IN  IF ~StartsWith(l, Prefix(field_name)) THEN <<PyNone, PyNone>>
        ELSE LET content == Strip(SubSeq(l, Len(Prefix(field_name)) + 1, Len(l)), " ")
                 opens == {i \in DOMAIN content :
                              content[i] = "<" /\ \E j \in DOMAIN content : j >= i + 2 /\ content[j] = ">"}
             IN  IF opens = {} THEN <<PyStr(content), PyNone>>
                 ELSE LET i == Min(opens)
                          j == Min({k \in DOMAIN content : k >= i + 2 /\ content[k] = ">"})
                      IN  <<PyStr(Strip(SubSeq(content, 1, i - 1), " ")),
                            PyStr(Lower(Strip(SubSeq(content, i + 1, j - 1), " ")))>>

\* what the parser reads off each line of MbxLines
LineInfo ==
    [k \in DOMAIN MbxLines |->
        LET line == MbxLines[k]
            stripped == Strip(line, " ")
        IN  [boundary |-> StartsWith(line, BoundaryMark),
             isSubject |-> StartsWith(line, Prefix(FieldSubject)),
             isFrom |-> StartsWith(line, Prefix(FieldFrom)),
             isTo |-> StartsWith(line, Prefix(FieldTo)),
             isDate |-> StartsWith(line, Prefix(FieldDate)),
             isReviewedBy |-> StartsWith(line, Prefix(FieldReviewedBy)),
             stripped |-> stripped,
             \* next_line.startswith(("From:", "To:", "Date:", "Reviewed-by:"))
             endsSubject |-> \/ StartsWith(stripped, Prefix(FieldFrom))
                             \/ StartsWith(stripped, Prefix(FieldTo))
                             \/ StartsWith(stripped, Prefix(FieldDate))
                             \/ StartsWith(stripped, Prefix(FieldReviewedBy)),
             From |-> extract_field(line, FieldFrom),
             To |-> extract_field(line, FieldTo),
             Date |-> extract_field(line, FieldDate),
             Subject |-> extract_field(line, FieldSubject),
             ReviewedBy |-> extract_field(line, FieldReviewedBy)]]

(***************************************************************************)
(* parse_emails_from_mbx: the loop over the lines.                          *)
(***************************************************************************)
\* the dict a boundary line opens
NewEmail ==
    [From |-> <<PyNone, PyNone>>, To |-> <<>>, Date |-> <<>>, Subject |-> <<>>, ReviewedBy |-> <<>>]

\* any(skip_item in name for skip_item in skipList), for a name that is a string
InSkipList(name) == \E k \in DOMAIN skipList : Contains(name, skipList[k])

\* the test and the append that close the open message, at a boundary line and at
\* the end of the file; "in" on a From name that is None raises TypeError
Flush(cur, at, ems, ats) ==
    IF cur = <<>> THEN [exc |-> "none", emails |-> ems, emails_at |-> ats]
    ELSE IF cur[1].From[1] = PyNone THEN [exc |-> "TypeError", emails |-> ems, emails_at |-> ats]
    ELSE IF InSkipList(cur[1].From[1].v) THEN [exc |-> "none", emails |-> ems, emails_at |-> ats]
    ELSE [exc |-> "none", emails |-> Append(ems, cur[1]), emails_at |-> Append(ats, at)]

RECURSIVE Fold(_, _, _)
\* the while loop under a Subject: line: next(file) until a blank line or one of the
\* four headers; next(file) at the end of the file raises StopIteration
Fold(f, p, subject_lines) ==
    IF p > Len(f) THEN [eof |-> TRUE, subject_lines |-> subject_lines, next_line |-> <<>>, next |-> p]
    ELSE LET next_line == LineInfo[f[p]].stripped
         IN  IF next_line = <<>> \/ LineInfo[f[p]].endsSubject
             THEN [eof |-> FALSE, subject_lines |-> subject_lines, next_line |-> next_line, next |-> p + 1]
             ELSE Fold(f, p + 1, Append(subject_lines, next_line))

RECURSIVE Join(_, _)
\* sep.join(parts)
Join(parts, sep) ==
    IF parts = <<>> THEN <<>>
    ELSE IF Len(parts) = 1 THEN parts[1]
    ELSE parts[1] \o sep \o Join(Tail(parts), sep)

\* a registry in which an address keeps the first name it was seen with
RegisterKeepFirst(reg, name, email) ==
    [n2e |-> reg.n2e \cup {<<name, email>>},
     e2n |-> IF \E p \in reg.e2n : p[1] = email THEN reg.e2n ELSE reg.e2n \cup {<<email, name>>}]

\* name_to_emails[name].add(email); email_to_name[email] = name
Register(reg, name, email) ==
    [n2e |-> reg.n2e \cup {<<name, email>>},
     e2n |-> {p \in reg.e2n : p[1] # email} \cup {<<email, name>>}]

\* the registries after a From: line gave (name, email)
RegisterFrom(reg, f) ==
    IF ~Truthy(f[1]) THEN reg
    ELSE IF Truthy(f[2]) THEN Register(reg, f[1].v, f[2].v)
    ELSE [reg EXCEPT !.n2e = @ \cup {<<f[1].v, PlaceholderEmail>>}]

\* the registries after a To: or Reviewed-by: line gave (name, email)
RegisterOther(reg, f) ==
    IF Truthy(f[1]) /\ Truthy(f[2]) THEN Register(reg, f[1].v, f[2].v) ELSE reg

\* lines 138-155: the From: / To: pair of tests on the line, given as its stripped text
FromTo(st, line) ==
    IF StartsWith(line, Prefix(FieldFrom)) /\ st.cur # <<>> /\ ~Truthy(st.cur[1].From[1])
    THEN LET f == extract_field(line, FieldFrom)
         IN  [cur |-> <<[st.cur[1] EXCEPT !.From = f]>>, reg |-> RegisterFrom(st.reg, f)]
    ELSE IF StartsWith(line, Prefix(FieldTo)) /\ st.cur # <<>> /\ st.cur[1].To = <<>>
    THEN LET f == extract_field(line, FieldTo)
         IN  [cur |-> IF Truthy(f[1]) THEN <<[st.cur[1] EXCEPT !.To = f[1].v]>> ELSE st.cur,
              reg |-> RegisterOther(st.reg, f)]
    ELSE st

\* lines 157-166: the Date: / Reviewed-by: pair of tests on the line
DateReviewedBy(st, line) ==
    IF StartsWith(line, Prefix(FieldDate)) /\ st.cur # <<>> /\ st.cur[1].Date = <<>>
    THEN [st EXCEPT !.cur = <<[st.cur[1] EXCEPT !.Date = extract_field(line, FieldDate)[1].v]>>]
    ELSE IF StartsWith(line, Prefix(FieldReviewedBy)) /\ st.cur # <<>>
    THEN LET f == extract_field(line, FieldReviewedBy)
         IN  [cur |-> IF Truthy(f[1])
                      THEN <<[st.cur[1] EXCEPT !.ReviewedBy = Append(@, f[1].v)]>>
                      ELSE st.cur,
              reg |-> RegisterOther(st.reg, f)]
    ELSE st

\* lines 109-135 for the line at line_no: the boundary test with the closing of
\* the open message, or the Subject: test with its loop; exc is what it raises,
\* line the text the tests of lines 138-166 then see, next the line read next
BoundaryOrSubject(f, n, cur, at, ems, ats) ==
    LET info == LineInfo[f[n]]
        flushed == Flush(cur, at, ems, ats)
        inSubject == ~info.boundary /\ info.isSubject /\ cur # <<>> /\ cur[1].Subject = <<>>
        fold == Fold(f, n + 1, <<info.Subject[1].v>>)
    IN  IF info.boundary
        THEN [exc |-> flushed.exc, cur |-> <<NewEmail>>, at |-> n, line |-> MbxLines[f[n]], next |-> n + 1,
              emails |-> flushed.emails, emails_at |-> flushed.emails_at]
        ELSE IF inSubject
        THEN [exc |-> IF fold.eof THEN "StopIteration" ELSE "none",
              cur |-> <<[cur[1] EXCEPT !.Subject = Join(fold.subject_lines, <<" ">>)]>>,
              at |-> at,
              line |-> IF fold.next_line # <<>> THEN fold.next_line ELSE MbxLines[f[n]],
              next |-> fold.next, emails |-> ems, emails_at |-> ats]
        ELSE [exc |-> "none", cur |-> cur, at |-> at, line |-> MbxLines[f[n]], next |-> n + 1,
              emails |-> ems, emails_at |-> ats]

\* one pass of "for line in file"
ParseLine ==
    /\ ppc = "scan"
    /\ line_no <= Len(mbx)
    /\ \E first \in {BoundaryOrSubject(mbx, line_no, current_email, current_at, emails, emails_at)} :
         \E second \in {FromTo([cur |-> first.cur,
                                reg |-> [n2e |-> name_to_emails, e2n |-> email_to_name]], first.line)} :
           \E third \in {DateReviewedBy(second, first.line)} :
             /\ line_no' = first.next
             /\ IF first.exc # "none"
                THEN /\ ppc' = "done"
                     /\ caught' = first.exc
                     /\ UNCHANGED <<current_email, current_at, emails, emails_at, name_to_emails,
                                    email_to_name>>
                ELSE /\ current_email' = third.cur
                     /\ current_at' = first.at
                     /\ emails' = first.emails
                     /\ emails_at' = first.emails_at
                     /\ name_to_emails' = third.reg.n2e
                     /\ email_to_name' = third.reg.e2n
                     /\ UNCHANGED <<ppc, caught>>
    /\ UNCHANGED <<mbx, aggVars, fetchVars, crawlVars, poolVars>>

\* the end of the file: the open message is closed and the list returned
ParseEnd ==
    /\ ppc = "scan"
    /\ line_no > Len(mbx)
    /\ LET flushed == Flush(current_email, current_at, emails, emails_at)
       IN  /\ caught' = flushed.exc
           /\ emails' = flushed.emails
           /\ emails_at' = flushed.emails_at
    /\ ppc' = "done"
    /\ UNCHANGED <<mbx, line_no, current_email, current_at, name_to_emails, email_to_name, aggVars,
                   fetchVars, crawlVars, poolVars>>

(***************************************************************************)
(* update_patches_data (src/parsePatches.py).                               *)
(***************************************************************************)
UnknownAuthor == <<"U", "n", "k", "n", "o", "w", "n", " ", "A", "u", "t", "h", "o", "r">>

\* the Date strings dateutil can parse, with int(parsed_date.timestamp()); the
\* clean-up of lines 233-246 leaves these strings as they are
DateTable ==
    {<<<<"2", " ", "J", "a", "n", " ", "1", "9", "7", "0">>, 86400>>,
     <<<<"3", " ", "J", "a", "n", " ", "1", "9", "7", "0">>, 172800>>}

\* parse_date(date_str, thread_id): the timestamp, or None when the parse raises
parse_date(date_str) ==
    IF \E p \in DateTable : p[1] = date_str
    THEN PyInt((CHOOSE p \in DateTable : p[1] = date_str)[2])
    ELSE PyNone

\* d[k] of a defaultdict
Get(d, k, default) == IF k \in DOMAIN d THEN d[k] ELSE default

\* d[k] = v
Put(d, k, v) == [x \in DOMAIN d \cup {k} |-> IF x = k THEN v ELSE d[x]]

\* a resolution without the placeholder
AuthorOfRaw(email) == email.From[1].v

\* email["From"][0], or the placeholder when it is None or empty
AuthorOf(email) == IF Truthy(email.From[1]) THEN email.From[1].v ELSE UnknownAuthor

\* max(a, b): TypeError when a is None
PyMax(a, b) == IF a.v[1] >= b.v[1] THEN a ELSE b

RECURSIVE AggregateFrom(_, _, _, _, _, _)
\* the loop of lines 302-336 from message i on (i = idx + 1)
AggregateFrom(g, ems, i, thread_author_name, tid, thread_start_date) ==
    IF i > Len(ems) THEN g
    ELSE LET email == ems[i]
             parsed == parse_date(email.Date)
             date == IF Truthy(parsed) THEN parsed ELSE thread_start_date
             author_name == AuthorOf(email)
             typeError == Truthy(date) /\ g.times[tid][2] = PyNone
             times == IF Truthy(date)
                      THEN [g.times EXCEPT ![tid] = <<@[1], PyMax(@[2], date)>>]
                      ELSE g.times
             responds == i > 1 /\ author_name # thread_author_name
             row == [From |-> author_name, To |-> email.To, Date |-> email.Date, Subject |-> tid,
                     ReviewedBy |-> Join(email.ReviewedBy, <<",", " ">>)]
         IN  IF typeError
             THEN AggregateFrom(g, ems, i + 1, thread_author_name, tid, thread_start_date)
             ELSE AggregateFrom(
                      [g EXCEPT !.times = times,
                                !.counts = IF responds THEN Put(@, tid, Get(@, tid, 0) + 1) ELSE @,
                                !.responders = IF responds
                                               THEN Put(@, author_name, Get(@, author_name, {}) \cup {tid})
                                               ELSE @,
                                !.buffer = Append(@, row),
                                !.buffer_idx = Append(@, i)],
                      ems, i + 1, thread_author_name, tid, thread_start_date)

\* a validation that takes every thread id
AcceptedAny(tid) == TRUE

\* the validation of lines 286-288: "if not thread_id" returns
Accepted(tid) == tid # <<>>

\* update_patches_data(emails, file_path) on the global state g
update_patches_data(g, ems) ==
    IF ems = <<>> THEN g
    ELSE LET thread_author_name == AuthorOf(ems[1])
             tid == Strip(ems[1].Subject, " ")
             thread_start_date == parse_date(ems[1].Date)
             times0 == IF tid \in DOMAIN g.times THEN g.times
                       ELSE Put(g.times, tid, <<thread_start_date, thread_start_date>>)
             times1 == IF Truthy(thread_start_date)
                       THEN [times0 EXCEPT ![tid] = <<thread_start_date, @[2]>>]
                       ELSE times0
         IN  IF ~Accepted(tid) THEN g
             ELSE AggregateFrom(
                      [g EXCEPT !.initiators = Put(@, thread_author_name, Get(@, thread_author_name, 0) + 1),
                                !.times = times1],
                      ems, 1, thread_author_name, tid, thread_start_date)

\* the globals update_patches_data works on
Globals ==
    [initiators |-> thread_initiators, responders |-> thread_responders,
     counts |-> thread_response_counts, times |-> thread_times,
     buffer |-> patches_data_buffer, buffer_idx |-> buffer_idx]

\* the file has messages and its first message a subject that is not blank
IsAccepted(ems) == ems # <<>> /\ Strip(ems[1].Subject, " ") # <<>>

\* update_patches_data(emails, file_path) and progress.update(task, advance=1)
UpdateGlobals(ems) ==
    /\ \E g \in {update_patches_data(Globals, ems)} :
         /\ thread_initiators' = g.initiators
         /\ thread_responders' = g.responders
         /\ thread_response_counts' = g.counts
         /\ thread_times' = g.times
         /\ patches_data_buffer' = g.buffer
         /\ buffer_idx' = g.buffer_idx
    /\ walked' = walked + 1
    /\ accepted' = IF IsAccepted(ems) THEN accepted + 1 ELSE accepted

\* walk_and_process, lines 401-402: the list the parser returned is aggregated
Aggregate ==
    /\ ppc = "done"
    /\ UpdateGlobals(emails)
    /\ ppc' = "aggregated"
    /\ UNCHANGED <<mbx, line_no, caught, current_email, emails, name_to_emails, email_to_name,
                   current_at, emails_at, fetchVars, crawlVars, poolVars>>

(***************************************************************************)
(* walk_and_process (src/parsePatches.py): file after file.                 *)
(***************************************************************************)
\* the senders of the messages process_file returns: a name with an address, and
\* an empty name with an address
Senders ==
    {<<PyStr(<<"a", "l">>), PyStr(<<"a", "@", "x">>)>>,
     <<PyStr(<<"b", "o">>), PyStr(<<"b", "@", "x">>)>>,
     <<PyStr(<<>>), PyStr(<<"b", "@", "x">>)>>}

\* their Date values: none, and the two of DateTable
DateValues == {<<>>} \cup {p[1] : p \in DateTable}

\* the Subject values of a first message: none, a thread id, and another after a
\* Subject: line that had only continuation lines
FirstSubjects == {<<>>, <<"s">>, <<" ", "t">>}

FirstMessages ==
    {[From |-> f, To |-> <<>>, Date |-> d, Subject |-> sj, ReviewedBy |-> <<>>] :
        f \in Senders, d \in DateValues, sj \in FirstSubjects}

LaterMessages ==
    {[From |-> f, To |-> <<>>, Date |-> d, Subject |-> <<"s">>, ReviewedBy |-> <<>>] :
        f \in Senders, d \in DateValues}

\* the lists process_file returns: none, or a first message and up to MaxMsgs - 1 after it
EmailLists ==
    {<<>>} \cup
    {<<m>> \o t : m \in FirstMessages,
                  t \in UNION {[1..n -> LaterMessages] : n \in 0..(MaxMsgs - 1)}}

\* one pass of the loop of lines 400-403: process_file gives a list, update_patches_data takes it
WalkFile ==
    /\ ppc = "walk"
    /\ walked < MaxFiles
    /\ \E ems \in EmailLists :
         /\ emails' = ems
         /\ UpdateGlobals(ems)
    /\ UNCHANGED <<mbx, line_no, ppc, caught, current_email, name_to_emails, email_to_name, current_at,
                   emails_at, fetchVars, crawlVars, poolVars>>

\* the aggregator's variables before the first file
AggregateIdle ==
    /\ thread_initiators = <<>>
    /\ thread_responders = <<>>
    /\ thread_response_counts = <<>>
    /\ thread_times = <<>>
    /\ patches_data_buffer = <<>>
    /\ buffer_idx = <<>>
    /\ walked = 0
    /\ accepted = 0

\* the parser's variables while another stage is looked at alone
ParseIdle ==
    /\ mbx = <<>>
    /\ line_no = 1
    /\ ppc = "idle"
    /\ caught = "none"
    /\ current_email = <<>>
    /\ emails = <<>>
    /\ name_to_emails = {}
    /\ email_to_name = {}
    /\ current_at = 0
    /\ emails_at = <<>>
    /\ AggregateIdle

\* a worker that has not taken its thread yet
IdleWorker ==
    [pc |-> "start", attempt |-> 0, response |-> "unbound", o |-> "none", gzLeft |-> FALSE,
     ret |-> NoCall, met |-> <<>>]

\* the pool while no pool runs
PoolIdle ==
    /\ pool = <<IdleWorker, IdleWorker>>
    /\ busy = 0
    /\ overlapped = FALSE
    /\ fs0 = [dirs |-> {}, files |-> {}]

\* the fetch stage's variables while another stage is looked at alone
FetchIdle ==
    /\ PoolIdle
    /\ thread_data = <<1>>
    /\ run = "first"
    /\ phase = "main"
    /\ idx = 1
    /\ threadsWithErrors = <<>>
    /\ withErrors = <<>>
    /\ aliased = FALSE
    /\ repeatCount = 0
    /\ passes = 0
    /\ passFailed = 0
    /\ dirs = {}
    /\ files = {}
    /\ active = FALSE
    /\ thread = 1
    /\ attempt = 0
    /\ response = "unbound"
    /\ wait_time = 0
    /\ ret = NoCall
    /\ outcome = "none"
    /\ only503 = TRUE
    /\ requests = 0
    /\ touched = FALSE
    /\ again = FALSE
    /\ succeeded = {}

\* the crawl's variables while the fetch stage is looked at alone
CrawlIdle ==
    /\ site = [c \in Cursors |-> <<>>]
    /\ cacheFile = <<>>
    /\ crun = "first"
    /\ cpc = "idle"
    /\ start_date = Base
    /\ cutoff_date = Base
    /\ cacheFileName = FALSE
    /\ cache = <<>>
    /\ crawl_data = <<>>
    /\ cachedTopics = {}
    /\ newestCachedPage = 0
    /\ oldestCachedPage = OldestInit
    /\ checkForCachedData = FALSE
    /\ next_page = Base
    /\ soup = <<>>
    /\ discovered = {}
    /\ writes = 0
    /\ page_outcome = "none"
    /\ slept = 0
    /\ exit = ""
    /\ prev = NoPrev
    /\ args_start_date = <<>>
    /\ args_end_date = <<1>>
    /\ mpc = "idle"


InitFetch ==
    /\ CrawlIdle
    /\ ParseIdle
    /\ PoolIdle
    /\ thread_data \in ThreadLists
    /\ run = "first"
    /\ phase = "main"
    /\ idx = 1
    /\ threadsWithErrors = <<>>
    /\ withErrors = <<>>
    /\ aliased = FALSE
    /\ repeatCount = 0
    /\ passes = 0
    /\ passFailed = 0
    /\ dirs = {}
    /\ files = {}
    /\ active = FALSE
    /\ thread = thread_data[1]
    /\ attempt = 0
    /\ response = "unbound"
    /\ wait_time = 0
    /\ ret = NoCall
    /\ outcome = "none"
    /\ only503 = TRUE
    /\ requests = 0
    /\ touched = FALSE
    /\ again = FALSE
    /\ succeeded = {}

NextFetch == CallBegin \/ Attempt \/ Rerun

SpecFetch == InitFetch /\ [][NextFetch]_vars

\* the crawl looked at alone: any site, no cache file yet, the fetch stage not started
InitCrawl ==
    /\ ParseIdle
    /\ PoolIdle
    /\ site \in Sites
    /\ cacheFile = <<>>
    /\ crun = "first"
    /\ cpc = "idle"
    /\ start_date = Base
    /\ cutoff_date = Base
    /\ cacheFileName \in BOOLEAN
    /\ cache = <<>>
    /\ crawl_data = <<>>
    /\ cachedTopics = {}
    /\ newestCachedPage = 0
    /\ oldestCachedPage = OldestInit
    /\ checkForCachedData = FALSE
    /\ next_page = Base
    /\ soup = <<>>
    /\ discovered = {}
    /\ writes = 0
    /\ page_outcome = "none"
    /\ slept = 0
    /\ exit = ""
    /\ prev = NoPrev
    /\ args_start_date = <<>>
    /\ args_end_date = <<1>>
    /\ mpc = "idle"
    /\ thread_data = <<1>>
    /\ run = "first"
    /\ phase = "main"
    /\ idx = 1
    /\ threadsWithErrors = <<>>
    /\ withErrors = <<>>
    /\ aliased = FALSE
    /\ repeatCount = 0
    /\ passes = 0
    /\ passFailed = 0
    /\ dirs = {}
    /\ files = {}
    /\ active = FALSE
    /\ thread = 1
    /\ attempt = 0
    /\ response = "unbound"
    /\ wait_time = 0
    /\ ret = NoCall
    /\ outcome = "none"
    /\ only503 = TRUE
    /\ requests = 0
    /\ touched = FALSE
    /\ again = FALSE
    /\ succeeded = {}

NextCrawl == StartCrawl \/ CrawlStep

SpecCrawl == InitCrawl /\ [][NextCrawl]_vars

(***************************************************************************)
(* fetch_all_threads after earlier runs: the cache file they left.          *)
(***************************************************************************)
\* the most passes an earlier run made before it ended or was cut short
MaxPasses == 2

\* the variables of the loop before its first pass, for the start page p over the cache c
LoopStart(p, c) ==
    [next_page |-> p, checkForCachedData |-> c # <<>>, cachedTopics |-> Range(LoadThreadData(c)),
     cache |-> c, over |-> FALSE]

\* lines 236-286: the variables of the loop after a pass in which get_page(next_page) answered
Pass(st, L, named, cutoff, newest, oldest) ==
    LET topic_threads == extract_topic_threads(st, L.next_page)
        fresh == Dedup(topic_threads, L.cachedTopics, 1)
        doWrite == ShouldWriteCache(named, fresh # <<>>, L.next_page)
        nl == next_link(L.next_page)
        skip == nl # <<>> /\ L.checkForCachedData /\ nl[1] < newest
        page_date == IF skip THEN oldest ELSE nl[1]
    IN  [next_page |-> IF nl = <<>> THEN L.next_page ELSE page_date,
         checkForCachedData |-> IF nl = <<>> THEN L.checkForCachedData ELSE L.checkForCachedData /\ ~skip,
         cachedTopics |-> L.cachedTopics \cup Range(fresh),
         cache |-> IF doWrite THEN Append(L.cache, <<L.next_page, topic_threads>>) ELSE L.cache,
         over |-> nl = <<>> \/ page_date < cutoff]

RECURSIVE Passes(_, _, _, _, _, _, _)
\* the variables of the loop after n passes, or fewer when the run returned before
Passes(st, L, named, cutoff, newest, oldest, n) ==
    IF n = 0 \/ L.over THEN L
    ELSE Passes(st, Pass(st, L, named, cutoff, newest, oldest), named, cutoff, newest, oldest, n - 1)

\* the cache file after a run with a cache file name and the arguments a over the
\* cache file c, which returned, or met a connection error, within n + 1 passes
CacheAfter(st, c, a, n) ==
    Passes(st, LoopStart(a[1], c), TRUE, a[2], LoadNewest(c), LoadOldest(c), n).cache

\* the cache files that no run, one run or two runs can have left
EarlierCaches(st) ==
    {CacheAfter(st, CacheAfter(st, <<>>, a, n), b, m) : a \in ArgPairs, b \in ArgPairs, n \in 0..MaxPasses, m \in 0..MaxPasses}

\* one more run over a cache file that earlier runs left
InitResume ==
    /\ ParseIdle
    /\ FetchIdle
    /\ site \in Sites
    /\ cacheFile \in EarlierCaches(site)
    /\ crun = "first"
    /\ cpc = "idle"
    /\ start_date = Base
    /\ cutoff_date = Base
    /\ cacheFileName = TRUE
    /\ cache = <<>>
    /\ crawl_data = <<>>
    /\ cachedTopics = {}
    /\ newestCachedPage = 0
    /\ oldestCachedPage = OldestInit
    /\ checkForCachedData = FALSE
    /\ next_page = Base
    /\ soup = <<>>
    /\ discovered = {}
    /\ writes = 0
    /\ page_outcome = "none"
    /\ slept = 0
    /\ exit = ""
    /\ prev = NoPrev
    /\ args_start_date = <<>>
    /\ args_end_date = <<1>>
    /\ mpc = "idle"

\* the call of the run that is looked at
Resume == cpc = "idle" /\ StartCrawl

NextResume == Resume \/ CrawlStep

SpecResume == InitResume /\ [][NextResume]_vars

\* what an earlier run can have left under output_dir: nothing, or the first
\* thread downloaded
Leftovers(pair) ==
    {[dirs |-> {}, files |-> {}]} \cup
    {[dirs |-> r.dirs, files |-> r.files] : r \in {RunCall({}, {}, pair[1], <<<<"ok", FALSE>>>>)}}

\* the pool looked at alone: two threads, an output directory as an earlier run left it
InitPool ==
    /\ CrawlIdle
    /\ ParseIdle
    /\ pool = <<IdleWorker, IdleWorker>>
    /\ busy = 0
    /\ overlapped = FALSE
    /\ thread_data \in PoolPairs
    /\ fs0 \in Leftovers(thread_data)
    /\ dirs = fs0.dirs
    /\ files = fs0.files
    /\ run = "first"
    /\ phase = "main"
    /\ idx = 1
    /\ threadsWithErrors = <<>>
    /\ withErrors = <<>>
    /\ aliased = FALSE
    /\ repeatCount = 0
    /\ passes = 0
    /\ passFailed = 0
    /\ active = FALSE
    /\ thread = 1
    /\ attempt = 0
    /\ response = "unbound"
    /\ wait_time = 0
    /\ ret = NoCall
    /\ outcome = "none"
    /\ only503 = TRUE
    /\ requests = 0
    /\ touched = FALSE
    /\ again = FALSE
    /\ succeeded = {}

NextPool ==
    \/ PoolBegin
    \/ PoolList
    \/ PoolRemove
    \/ PoolGet
    \/ PoolWriteGz
    \/ PoolGunzip
    \/ PoolRemoveGz
    \/ PoolInfo
    \/ PoolNote
    \/ Collect

SpecPool == InitPool /\ [][NextPool]_vars

\* the command looked at alone: any site, any dates on the command line
InitMain ==
    /\ ParseIdle
    /\ FetchIdle
    /\ site \in Sites
    /\ cacheFile = <<>>
    /\ crun = "first"
    /\ cpc = "idle"
    /\ start_date = Base
    /\ cutoff_date = Base
    /\ cacheFileName \in BOOLEAN
    /\ cache = <<>>
    /\ crawl_data = <<>>
    /\ cachedTopics = {}
    /\ newestCachedPage = 0
    /\ oldestCachedPage = OldestInit
    /\ checkForCachedData = FALSE
    /\ next_page = Base
    /\ soup = <<>>
    /\ discovered = {}
    /\ writes = 0
    /\ page_outcome = "none"
    /\ slept = 0
    /\ exit = ""
    /\ prev = NoPrev
    /\ args_start_date \in {<<>>} \cup {<<d>> : d \in CliDates}
    /\ args_end_date \in {<<d>> : d \in CliDates}
    /\ mpc = "cli"

NextMain == Main \/ CrawlStep

SpecMain == InitMain /\ [][NextMain]_vars

\* the parser looked at alone: any file, the other stages not started
InitParse ==
    /\ mbx \in MbxFiles
    /\ line_no = 1
    /\ ppc = "scan"
    /\ caught = "none"
    /\ current_email = <<>>
    /\ emails = <<>>
    /\ name_to_emails = {}
    /\ email_to_name = {}
    /\ current_at = 0
    /\ emails_at = <<>>
    /\ AggregateIdle
    /\ CrawlIdle
    /\ FetchIdle

NextParse == ParseLine \/ ParseEnd \/ Aggregate

SpecParse == InitParse /\ [][NextParse]_vars

\* the walk over the files looked at alone: no file gone through yet
InitWalk ==
    /\ mbx = <<>>
    /\ line_no = 1
    /\ ppc = "walk"
    /\ caught = "none"
    /\ current_email = <<>>
    /\ emails = <<>>
    /\ name_to_emails = {}
    /\ email_to_name = {}
    /\ current_at = 0
    /\ emails_at = <<>>
    /\ AggregateIdle
    /\ CrawlIdle
    /\ FetchIdle

NextWalk == WalkFile

SpecWalk == InitWalk /\ [][NextWalk]_vars

(***************************************************************************)
(* Properties of the fetch stage, checked under SpecFetch.                  *)
(***************************************************************************)
\* the directory and the names of the thread of the current (or last) call
Cur == ThreadNames[thread]

\* a call has returned and none is running
Returned == ~active /\ ret # NoCall

\* the error note in the directory of the last call
HasErrorNote == HasFile(files, Cur.dir, ErrorName)

\* C1: download_mbx_thread never raises to its caller: whatever the attempts
\* meet, the call returns the directory, "skipped" or None, and a None return
\* leaves an error note in the thread directory.
C1_NeverRaises ==
    /\ ret # Raised
    /\ phase # "crashed"
    /\ (Returned /\ ret = PyNone => HasErrorNote)

\* C2: the recovery phase carries a thread whose re-attempt failed into the
\* next pass, for up to 3 passes: it ends before the 3rd pass only when the
\* pass just made had no failure.
C2_RecoveryCarries ==
    (phase = "done" /\ passes >= 1 /\ passes < RepeatCountInit) => passFailed = 0

\* C4: a call for a thread for which an earlier call returned the directory
\* makes no network request, changes no file and no directory, and returns
\* the directory again.
C4_SecondCallSkips ==
    again => /\ ~active
             /\ ret = PyPath(Cur.dir)
             /\ requests = 0
             /\ ~touched

\* C4 witness: the second call for the long-lived thread has returned in the re-run.
C4_Witness ==
    /\ again /\ run = "again" /\ ret = PyPath(Cur.dir) /\ requests = 0
    /\ HasFile(files, Cur.dir, MbxName(Cur.id))

\* C5: 503 on the first k attempts (k <= max_retries) and 200 on the next
\* make the call succeed on attempt k+1, with the archive in the directory
\* and neither an error note nor the compressed file of the thread left.
C5_SuccessAfter503s ==
    (Returned /\ outcome = "ok" /\ only503) =>
        /\ ret = PyPath(Cur.dir)
        /\ requests = attempt + 1
        /\ attempt <= max_retries
        /\ [dir |-> Cur.dir, name |-> MbxName(Cur.id), content |-> Content("data", "full", <<>>)] \in files
        /\ ~HasErrorNote
        /\ ~HasFile(files, Cur.dir, GzName(Cur.id))

\* C5: each backoff delay of a call is strictly longer than the one before it.
C5_DelaysIncrease ==
    (active /\ active' /\ attempt' = attempt + 1 /\ attempt >= 1) => wait_time' > wait_time

\* C5: the two parts together.
C5_Theorem == [](C5_SuccessAfter503s) /\ [][C5_DelaysIncrease]_vars

\* C5 witness: 503 on all five retried attempts, then 200 on the last attempt allowed.
C5_Witness ==
    Returned /\ outcome = "ok" /\ only503 /\ requests = max_retries + 1 /\ ret = PyPath(Cur.dir)

\* C6: when every attempt gets 503 the call makes at most max_retries+1
\* requests, sleeps between 2^a and 2^a+1 seconds after attempt a, and ends
\* with an error note carrying the message and the URL, returning None.
C6_AllAttempts503 ==
    (outcome = "s503" /\ only503) =>
        /\ requests <= max_retries + 1
        /\ active =>
             /\ attempt = requests
             /\ wait_time >= Pow2(attempt - 1) * JitterDen
             /\ wait_time <= (Pow2(attempt - 1) + 1) * JitterDen
        /\ ~active =>
             /\ requests = max_retries + 1
             /\ ret = PyNone
             /\ [dir |-> Cur.dir, name |-> ErrorName,
                 content |-> Content("HTTP Error", "s503", Cur.url)] \in files

\* C6 witness: the sixth 503 has ended the call.
C6_Witness ==
    Returned /\ outcome = "s503" /\ only503 /\ requests = max_retries + 1 /\ ret = PyNone

\* C7: an attempt that times out without a response is retried while
\* attempts remain; only at the cap is it recorded in an error note and
\* returned as a failure.
C7_TimeoutTransient ==
    outcome = "noresp" =>
        /\ requests - 1 < max_retries => active
        /\ ~active => (ret = PyNone /\ HasErrorNote)

\* C8: a 404 as the first response of a call is not retried: the call ends
\* after that one request with an error note and returns None.
C8_PermanentNotRetried ==
    (outcome = "s404" /\ requests = 1) =>
        /\ ~active
        /\ ret = PyNone
        /\ [dir |-> Cur.dir, name |-> ErrorName,
            content |-> Content("HTTP Error", "s404", Cur.url)] \in files

\* C8 witness: the call has ended on its first response, a 404.
C8_Witness == Returned /\ outcome = "s404" /\ requests = 1 /\ ret = PyNone /\ HasErrorNote

\* C9: a thread whose sanitized title is "unknown" in any case gets the
\* "skipped" sentinel with no request, no directory and no file change, and
\* is never put on the failure list.
C9_UnknownSkipped ==
    /\ (ret # NoCall /\ Cur.unknown) =>
          /\ ~active
          /\ ret = Skipped
          /\ requests = 0
          /\ ~touched
          /\ Cur.dir \notin dirs
    /\ \A i \in DOMAIN threadsWithErrors : ~ThreadNames[threadsWithErrors[i]].unknown

\* C9 witness: the run is over after skipping the thread whose long title is cut back to "(Unknown)".
C9_Witness == phase = "done" /\ ret = Skipped /\ Cur.long /\ threadsWithErrors = <<>>

(***************************************************************************)
(* Properties of the crawl, checked under SpecCrawl.                        *)
(***************************************************************************)
\* C3: a page fetch that fails with anything but HTTP 503 ends the crawl with
\* a normal return of the links gathered so far: no further page is fetched.
C3_FailureAborts ==
    page_outcome \in {"http_error", "conn_error"} => cpc = "returned"

\* this crawl repeats the arguments of the crawl before it, which ran to its end (the cutoff
\* date or the last page) and was not ended by an error, and reads the cache file it left
SecondRun ==
    /\ crun = "again"
    /\ cacheFileName
    /\ prev.any /\ prev.clean
    /\ prev.start = start_date /\ prev.cutoff = cutoff_date

\* C10 as stated: the second crawl finds no link that is not in the cache and
\* does not rewrite the cache file.
C10_Original ==
    SecondRun => (discovered = {} /\ writes = 0)

\* C10 as amended: the second crawl does not rewrite the cache file; with a
\* start date it finds no link that is not in the cache, and without one the
\* only such links are those of the base page, which is never cached.
C10_Amended ==
    SecondRun =>
        /\ writes = 0
        /\ start_date # Base => discovered = {}
        /\ start_date = Base => discovered \subseteq Range(site[Base])

\* C10 witness: the second crawl from a start date has gone through cached pages to its end.
C10_Witness ==
    /\ SecondRun /\ cpc = "returned" /\ exit = "cutoff" /\ start_date = NPages
    /\ Len(cacheFile) >= 2 /\ ~checkForCachedData /\ discovered = {} /\ writes = 0

\* a pass of the loop that got the page next_page and processed it
Processed == cpc = "loop" /\ page_outcome' = "ok"

\* C11: after a page is processed, a next link whose cursor is older than the
\* cutoff, or no next link at all, ends the crawl there: no further page is
\* fetched and the links of that page are in the returned list.
C11_StopsAtCutoff ==
    [][(Processed /\ (next_link(next_page) = <<>> \/ next_link(next_page)[1] < cutoff_date))
        => (cpc' = "returned" /\ Range(site[next_page]) \subseteq Range(crawl_data'))]_vars

\* no url twice
NoDup(seq) == \A i, j \in DOMAIN seq : seq[i] = seq[j] => i = j

\* the index of the first occurrence of u in raw
FirstAt(raw, u) == Min({i \in DOMAIN raw : raw[i] = u})

\* out holds every url of raw once, in the order of their first occurrences
FirstOccurrences(out, raw) ==
    /\ NoDup(out)
    /\ Range(out) = Range(raw)
    /\ \A i, j \in DOMAIN out : i < j => FirstAt(raw, out[i]) < FirstAt(raw, out[j])

\* the links the call starts from: those of the cache file, entry after entry
CachedRaw == CacheLinks(json_file_to_list(cacheFileName, cacheFile), Len(json_file_to_list(cacheFileName, cacheFile)))

\* the step from the call to the first pass of the loop
Started == cpc # "loop" /\ cpc' = "loop"

\* C12: the accumulated list never holds a url twice.
C12_NoDuplicates == NoDup(crawl_data)

\* C12: the list starts as the first occurrences of the cached links, in cache order.
C12_CacheOrder == Started => FirstOccurrences(crawl_data', CachedRaw)

\* C12: a processed page leaves the list as it was and adds, at its end, the
\* first occurrences of the page's links that the list did not hold.
C12_CrawlOrder ==
    Processed =>
        /\ Len(crawl_data') >= Len(crawl_data)
        /\ SubSeq(crawl_data', 1, Len(crawl_data)) = crawl_data
        /\ FirstOccurrences(SubSeq(crawl_data', Len(crawl_data) + 1, Len(crawl_data')),
                            SelectSeq(site[next_page], LAMBDA u : u \notin Range(crawl_data)))

\* C12: the three parts together.
C12_Theorem == [](C12_NoDuplicates) /\ [][C12_CacheOrder]_vars /\ [][C12_CrawlOrder]_vars

\* C12 witness: a crawl that started from a cache holding a url in two entries has
\* met that url again on a page and has returned three links.
C12_Witness ==
    /\ cpc = "returned" /\ crun = "again" /\ cacheFileName
    /\ ~NoDup(CacheLinks(cacheFile, Len(cacheFile)))
    /\ Len(crawl_data) >= 3
    /\ page_outcome = "ok"

\* C13: the cache file changes only in a pass that processed a page other than
\* the base page with at least one link not seen before, and the change is one
\* entry (page, links on the page) put after the entries the file held.
C13_AppendOnly ==
    cacheFile' # cacheFile =>
        /\ Processed
        /\ next_page # Base
        /\ \E u \in Range(site[next_page]) : u \notin Range(crawl_data)
        /\ cacheFile' = Append(cacheFile, <<next_page, site[next_page]>>)

\* C13: the base page is never an entry of the cache file.
C13_NoBaseEntry == \A i \in DOMAIN cacheFile : cacheFile[i][1] # Base

\* C13: the two parts together.
C13_Theorem == [](C13_NoBaseEntry) /\ [][C13_AppendOnly]_vars

\* C13 witness: a crawl from the base page, which showed a link, has put two
\* entries after the one the file held.
C13_Witness ==
    /\ crun = "again" /\ start_date = Base /\ site[Base] # <<>>
    /\ writes = 2 /\ Len(cacheFile) = 3
    /\ site[Base][1] \in Range(crawl_data)

\* a pass of the loop whose get_page was answered 503
Got503 == cpc = "loop" /\ page_outcome' = "s503"

\* C14: a 503 for a page leaves the list, the cache, the cache file and the
\* cursor as they were, sleeps the fixed delay and stays in the loop, so the
\* next pass asks for the same page.
C14_RetrySamePage ==
    Got503 =>
        /\ cpc' = "loop"
        /\ slept' = read_http_sleep
        /\ UNCHANGED <<crawl_data, cachedTopics, cache, cacheFile, next_page, checkForCachedData>>

\* C14: the pass in which the page answers after a 503 processes it once: each
\* of its links is in the list once, and the cache file gets at most the one
\* entry of that page.
C14_ProcessedOnce ==
    (page_outcome = "s503" /\ Processed) =>
        /\ Range(site[next_page]) \subseteq Range(crawl_data')
        /\ NoDup(crawl_data')
        /\ Len(crawl_data') <= Len(crawl_data) + Len(site[next_page])
        /\ \/ cacheFile' = cacheFile
           \/ cacheFile' = Append(cacheFile, <<next_page, site[next_page]>>)
        /\ slept' = 0

\* C14: the two parts together.
C14_Theorem == [][C14_RetrySamePage]_vars /\ [][C14_ProcessedOnce]_vars

\* C14 witness: in the middle of a crawl that has links and a cache entry, a page
\* answered 503 and the loop has slept to ask for it again.
C14_Witness ==
    /\ cpc = "loop" /\ page_outcome = "s503" /\ slept = read_http_sleep
    /\ soup # <<>> /\ next_page # Base /\ next_page # soup[1]
    /\ crawl_data # <<>> /\ writes >= 1

(***************************************************************************)
(* Properties of the parser, checked under SpecParse.                       *)
(***************************************************************************)
\* the lines of f that are boundary lines
Boundaries(f) == {i \in DOMAIN f : LineInfo[f[i]].boundary}

\* the same, in file order
BoundarySeq(f) == SelectSeq([i \in DOMAIN f |-> i], LAMBDA i : LineInfo[f[i]].boundary)

\* the lines of the message that the boundary at line a opens: up to the next boundary line
MessageLines(f, a) == {i \in DOMAIN f : i > a /\ \A b \in Boundaries(f) : b > a => i < b}

\* a From: line of f names a sender of the skip list
HasFilteredSender(f) ==
    \E i \in DOMAIN f :
        /\ LineInfo[f[i]].isFrom
        /\ Truthy(LineInfo[f[i]].From[1])
        /\ InSkipList(LineInfo[f[i]].From[1].v)

\* the call has returned
Parsed == ppc = "done"

\* C15: a file with N boundary lines and no filtered sender gives N messages,
\* one for each boundary line and in the order of the file.
C15_OnePerBoundary ==
    (Parsed /\ ~HasFilteredSender(mbx)) => emails_at = BoundarySeq(mbx)

\* C17: From, To and Date of a returned message are those of the first From:,
\* To: and Date: line of the message, whatever the later ones say.
C17_FirstOccurrence ==
    Parsed =>
        \A k \in DOMAIN emails :
            LET a == emails_at[k]
                froms == {i \in MessageLines(mbx, a) : LineInfo[mbx[i]].isFrom}
                tos == {i \in MessageLines(mbx, a) : LineInfo[mbx[i]].isTo}
                dates == {i \in MessageLines(mbx, a) : LineInfo[mbx[i]].isDate}
            IN  /\ froms # {} => emails[k].From = LineInfo[mbx[Min(froms)]].From
                /\ tos # {} => emails[k].To = LineInfo[mbx[Min(tos)]].To[1].v
                /\ dates # {} => emails[k].Date = LineInfo[mbx[Min(dates)]].Date[1].v

\* the names of the Reviewed-by: lines of the message opened at line a, in line order
ReviewersOf(f, a) ==
    LET at == SelectSeq([i \in DOMAIN f |-> i],
                        LAMBDA i : i \in MessageLines(f, a) /\ LineInfo[f[i]].isReviewedBy)
    IN  [j \in DOMAIN at |-> LineInfo[f[at[j]]].ReviewedBy[1].v]

\* C18: ReviewedBy of a returned message holds the names of the Reviewed-by:
\* lines of that message, one for each line and in line order, and none of
\* another message.
C18_ReviewersOfMessage ==
    Parsed => \A k \in DOMAIN emails : emails[k].ReviewedBy = ReviewersOf(mbx, emails_at[k])

\* the pass of the loop that takes the Subject: line of the open message
SubjectPass ==
    /\ ppc = "scan"
    /\ line_no <= Len(mbx)
    /\ ~LineInfo[mbx[line_no]].boundary
    /\ LineInfo[mbx[line_no]].isSubject
    /\ current_email # <<>>
    /\ current_email[1].Subject = <<>>

\* the lines after line p of f that end a subject: blank ones and the four headers
SubjectEnds(f, p) ==
    {i \in DOMAIN f : i > p /\ (LineInfo[f[i]].stripped = <<>> \/ LineInfo[f[i]].endsSubject)}

\* C19: the pass that takes a Subject: line joins to it, with single spaces,
\* the lines up to the first blank line or header; that header is taken as its
\* own field in the same pass; and when the file ends first the pass raises
\* nothing, so that the message is still closed at the end of the file.
C19_SubjectFolding ==
    SubjectPass =>
        LET ends == SubjectEnds(mbx, line_no)
            last == IF ends = {} THEN Len(mbx) ELSE Min(ends) - 1
            parts == <<LineInfo[mbx[line_no]].Subject[1].v>>
                     \o [j \in 1..(last - line_no) |-> LineInfo[mbx[line_no + j]].stripped]
            stop == LineInfo[mbx[Min(ends)]]
        IN  /\ caught' = "none"
            /\ current_email' # <<>>
            /\ current_email'[1].Subject = Join(parts, <<" ">>)
            /\ ends # {} =>
                 /\ line_no' = Min(ends) + 1
                 /\ (stop.isReviewedBy /\ Truthy(stop.ReviewedBy[1])) =>
                       current_email'[1].ReviewedBy = Append(current_email[1].ReviewedBy, stop.ReviewedBy[1].v)
                 /\ (stop.isFrom /\ ~Truthy(current_email[1].From[1])) => current_email'[1].From = stop.From
                 /\ (stop.isTo /\ current_email[1].To = <<>> /\ Truthy(stop.To[1])) =>
                       current_email'[1].To = stop.To[1].v
                 /\ (stop.isDate /\ current_email[1].Date = <<>>) => current_email'[1].Date = stop.Date[1].v

\* C19 as a property of every step.
C19_Theorem == [][C19_SubjectFolding]_vars

\* the step that closes the open message: a boundary line, or the end of the file
Closing ==
    /\ ppc = "scan"
    /\ current_email # <<>>
    /\ line_no > Len(mbx) \/ LineInfo[mbx[line_no]].boundary

\* the From name of the message matches the skip list
IsFiltered(email) == Truthy(email.From[1]) /\ InSkipList(email.From[1].v)

\* C20: the list never holds a message of a filtered sender.
C20_NoFilteredOutput == \A k \in DOMAIN emails : ~IsFiltered(emails[k])

\* C20: at a boundary line and at the end of the file alike, the open message
\* is put on the list unless its sender is filtered.
C20_SameRule ==
    Closing =>
        emails' = IF IsFiltered(current_email[1]) THEN emails ELSE Append(emails, current_email[1])

\* C20: the two parts together.
C20_Theorem == [](C20_NoFilteredOutput) /\ [][C20_SameRule]_vars

\* the message opened at line a has no From: line, or its first From: line has an empty name
Nameless(f, a) ==
    LET froms == {i \in MessageLines(f, a) : LineInfo[f[i]].isFrom}
    IN  froms = {} \/ ~Truthy(LineInfo[f[Min(froms)]].From[1])

\* update_patches_data has returned
Aggregated == ppc = "aggregated"

\* C16: a message without a From name is on the returned list, the messages
\* after it in the file are on the list too, and when the file is aggregated
\* the message has a row under the author "Unknown Author".
C16_NamelessKept ==
    (Aggregated /\ ~HasFilteredSender(mbx)) =>
        \A b \in Boundaries(mbx) :
            Nameless(mbx, b) =>
                /\ \A b2 \in Boundaries(mbx) : b2 >= b => \E k \in DOMAIN emails : emails_at[k] = b2
                /\ \A k \in DOMAIN emails :
                     (emails_at[k] = b /\ Strip(emails[1].Subject, " ") # <<>>) =>
                        \E r \in DOMAIN patches_data_buffer :
                            buffer_idx[r] = k /\ patches_data_buffer[r].From = UnknownAuthor

(***************************************************************************)
(* Properties of the aggregator, checked under SpecWalk.                    *)
(***************************************************************************)
\* the step is a pass of the loop over the files, and its file was accepted
AcceptedStep == walked' = walked + 1 /\ IsAccepted(emails')

\* the step is a pass of the loop over the files, and its file was discarded
DiscardedStep == walked' = walked + 1 /\ ~IsAccepted(emails')

\* the thread identity of a file: the subject of its first message, trimmed
ThreadId(ems) == Strip(ems[1].Subject, " ")

\* the resolved From name of a message: the name, or the placeholder without one
ResolvedName(email) ==
    IF email.From[1] = PyNone \/ email.From[1].v = <<>> THEN UnknownAuthor ELSE email.From[1].v

\* the time is unset
Unset(x) == x.t = "none"

\* the time is set, to n
SetTo(x, n) == x.t = "int" /\ x.v = <<n>>

\* the messages of a file whose date parses
Dated(ems) == {k \in DOMAIN ems : ~Unset(parse_date(ems[k].Date))}

\* the messages of a file that respond: not the first, and not of the initiator's name
Responses(ems) == {k \in DOMAIN ems : k > 1 /\ ResolvedName(ems[k]) # ResolvedName(ems[1])}

\* C21, first part: every record of thread_times has both times unset, or both
\* set with the last response not before the start, and neither is zero.
C21_Span ==
    \A tid \in DOMAIN thread_times :
        \/ Unset(thread_times[tid][1]) /\ Unset(thread_times[tid][2])
        \/ /\ thread_times[tid][1].t = "int"
           /\ thread_times[tid][2].t = "int"
           /\ thread_times[tid][2].v[1] >= thread_times[tid][1].v[1]
           /\ thread_times[tid][1].v[1] # 0
           /\ thread_times[tid][2].v[1] # 0

\* C21, second part: once a message of the thread has given a date that parses,
\* the times of the thread are not both unset.
C21_UnsetOnlyWithoutDate ==
    (AcceptedStep /\ Dated(emails') # {}) =>
        ~(Unset(thread_times'[ThreadId(emails')][1]) /\ Unset(thread_times'[ThreadId(emails')][2]))

\* C21: after any sequence of files a record of thread_times has both times
\* unset or both set with lastResponseTime >= startTime, both stay unset only
\* while no message of the thread gave a parseable date, and zero never stands
\* for unset.
C21_Theorem == [](C21_Span) /\ [][C21_UnsetOnlyWithoutDate]_vars

\* The counters and responded-sets after one accepted file (lines 302-324).
C22_AttributionStep ==
    AcceptedStep =>
        LET tid == ThreadId(emails')
            names == {ResolvedName(emails'[k]) : k \in Responses(emails')}
        IN  /\ Get(thread_response_counts', tid, 0) =
                   Get(thread_response_counts, tid, 0) + Cardinality(Responses(emails'))
            /\ \A t \in (DOMAIN thread_response_counts' \cup DOMAIN thread_response_counts) \ {tid} :
                   Get(thread_response_counts', t, 0) = Get(thread_response_counts, t, 0)
            /\ \A a \in DOMAIN thread_responders' \cup DOMAIN thread_responders \cup names :
                   Get(thread_responders', a, {}) =
                       Get(thread_responders, a, {}) \cup (IF a \in names THEN {tid} ELSE {})

\* C22: aggregating an accepted file adds one to the thread's response counter
\* and adds the thread to the author's responded-set for exactly the messages
\* after the first whose resolved From name differs from the initiator's; the
\* other counters and sets stay as they are.
C22_ResponseAttribution == [][C22_AttributionStep]_vars

\* The rows appended by one accepted file (lines 327-336).
C23_RowStep ==
    AcceptedStep =>
        /\ Len(patches_data_buffer') = Len(patches_data_buffer) + Len(emails')
        /\ SubSeq(patches_data_buffer', 1, Len(patches_data_buffer)) = patches_data_buffer
        /\ \A k \in DOMAIN emails' :
               Len(patches_data_buffer) + k \in DOMAIN patches_data_buffer' =>
                   /\ patches_data_buffer'[Len(patches_data_buffer) + k].Subject = ThreadId(emails')
                   /\ patches_data_buffer'[Len(patches_data_buffer) + k].Date = emails'[k].Date

\* C23: aggregating an accepted file appends one row per message to the buffer,
\* in message order, each with the thread identity as Subject and the raw
\* header string as Date.
C23_RowPerMessage == [][C23_RowStep]_vars

\* C24: a file without messages, or whose first message has no subject after
\* trimming, changes none of the aggregator's globals.
C24_DiscardedFileNoOp ==
    DiscardedStep =>
        UNCHANGED <<thread_initiators, thread_responders, thread_response_counts, thread_times,
                    patches_data_buffer>>

C24_Theorem == [][C24_DiscardedFileNoOp]_vars

\* a file with messages and no subject went through after a file that left rows
C24_Witness ==
    /\ walked = 2
    /\ accepted = 1
    /\ emails # <<>>
    /\ ThreadId(emails) = <<>>
    /\ patches_data_buffer # <<>>
    /\ thread_initiators # <<>>

RECURSIVE SumOf(_, _)
\* the sum of d over the keys in S
SumOf(d, S) ==
    IF S = {} THEN 0
    ELSE LET k == CHOOSE x \in S : TRUE IN d[k] + SumOf(d, S \ {k})

\* C25, the step: an accepted file adds one to the initiated count of the first
\* message's resolved From name and leaves every other count as it is.
C25_OneInitiator ==
    AcceptedStep =>
        LET a == ResolvedName(emails'[1])
        IN  /\ DOMAIN thread_initiators' = DOMAIN thread_initiators \cup {a}
            /\ thread_initiators'[a] = Get(thread_initiators, a, 0) + 1
            /\ \A b \in DOMAIN thread_initiators : b # a => thread_initiators'[b] = thread_initiators[b]

\* C25, the sum: the initiated counts add up to the number of accepted files.
C25_SumIsAccepted == SumOf(thread_initiators, DOMAIN thread_initiators) = accepted

\* C25: each accepted file counts for exactly one initiator, once.
C25_Theorem == [](C25_SumIsAccepted) /\ [][C25_OneInitiator]_vars

\* two accepted files, one begun by a sender without a name and one by a named sender
C25_Witness ==
    /\ walked = 2
    /\ accepted = 2
    /\ UnknownAuthor \in DOMAIN thread_initiators
    /\ thread_initiators[UnknownAuthor] = 1
    /\ <<"a", "l">> \in DOMAIN thread_initiators
    /\ emails[1].From[1].v = <<>>

\* C26: a date that does not parse does not stop the aggregation of the file:
\* every message still gets its row and its response attribution, the span end
\* becomes the maximum of the end before and every date of the file that
\* parses, and the span start is the initiator's date when that parses.
C26_FallbackContinues ==
    AcceptedStep =>
        LET tid == ThreadId(emails')
            before == IF tid \in DOMAIN thread_times /\ ~Unset(thread_times[tid][2])
                      THEN {thread_times[tid][2].v[1]} ELSE {}
            dates == before \cup {parse_date(emails'[k].Date).v[1] : k \in Dated(emails')}
        IN  /\ Len(patches_data_buffer') - Len(patches_data_buffer) = Len(emails')
            /\ Get(thread_response_counts', tid, 0) - Get(thread_response_counts, tid, 0) =
                   Cardinality(Responses(emails'))
            /\ dates # {} => SetTo(thread_times'[tid][2], Max(dates))
            /\ 1 \in Dated(emails') => SetTo(thread_times'[tid][1], parse_date(emails'[1].Date).v[1])

C26_Theorem == [][C26_FallbackContinues]_vars

(***************************************************************************)
(* Properties of the identity registry, checked under SpecParse.            *)
(***************************************************************************)
\* the pass of the loop over the lines ends without an exception
LineRead == ppc = "scan" /\ line_no <= Len(mbx) /\ ppc' = "scan"

\* the (name, email) pair the pass parses from a From:, To: or Reviewed-by:
\* header, <<>> when the line it looks at is none of them or is passed over
ParsedPair ==
    LET first == BoundaryOrSubject(mbx, line_no, current_email, current_at, emails, emails_at)
        open == first.cur # <<>>
    IN  IF open /\ StartsWith(first.line, Prefix(FieldFrom)) /\ ~Truthy(first.cur[1].From[1])
        THEN <<extract_field(first.line, FieldFrom)>>
        ELSE IF open /\ StartsWith(first.line, Prefix(FieldTo)) /\ first.cur[1].To = <<>>
        THEN <<extract_field(first.line, FieldTo)>>
        ELSE IF open /\ StartsWith(first.line, Prefix(FieldReviewedBy))
        THEN <<extract_field(first.line, FieldReviewedBy)>>
        ELSE <<>>

\* both components of the pair are present
BothPresent(pair) == Truthy(pair[1]) /\ Truthy(pair[2])

\* C27, the step: a parsed pair with both components makes its name the name of
\* its email and puts the email among the emails of the name; nothing else of
\* email_to_name changes, and name_to_emails loses nothing.
C27_PairRegistered ==
    LineRead =>
        /\ name_to_emails \subseteq name_to_emails'
        /\ IF ParsedPair # <<>> /\ BothPresent(ParsedPair[1])
           THEN LET n == ParsedPair[1][1].v
                    e == ParsedPair[1][2].v
                IN  /\ <<n, e>> \in name_to_emails'
                    /\ email_to_name' = {p \in email_to_name : p[1] # e} \cup {<<e, n>>}
           ELSE email_to_name' = email_to_name

\* C27, the state: an email has one name, and is among the emails of that name.
C27_Consistent ==
    /\ \A p, q \in email_to_name : p[1] = q[1] => p = q
    /\ \A p \in email_to_name : <<p[2], p[1]>> \in name_to_emails

\* C27: email_to_name gives each email the name of the latest parsed pair with
\* that email, name_to_emails keeps every email a name was paired with, and
\* every email of email_to_name is among the emails of its name.
C27_Theorem == [](C27_Consistent) /\ [][C27_PairRegistered]_vars

\* an address first parsed with the sender al was then parsed with cy
C27_Witness ==
    /\ <<<<"a", "@", "x">>, <<"c", "y">>>> \in email_to_name
    /\ <<<<"a", "l">>, <<"a", "@", "x">>>> \in name_to_emails
    /\ <<<<"c", "y">>, <<"a", "@", "x">>>> \in name_to_emails

(***************************************************************************)
(* The artifact after a failed call, checked under SpecFetch.               *)
(***************************************************************************)
\* C30, the state: after a call that returned None, the thread directory holds
\* no file whose name ends in .mbx.
C30_NoArtifactAfterFailure == (Returned /\ ret = PyNone) => ~HasMbx(files, Cur.dir)

\* C30, the later call: a call of a recovery pass returns the directory without
\* a download attempt only when a call for that directory had returned it before.
C30_RecoveryAttempts ==
    (phase = "recovery" /\ ~active /\ ~active' /\ ret'.t = "path") =>
        \E t \in succeeded : ThreadNames[t].dir = ThreadNames[thread'].dir

\* C30: a call that returns the failure sentinel leaves no .mbx file in the
\* thread directory, so that a later call for the thread makes a download
\* attempt instead of returning through the test for an existing .mbx file.
C30_Theorem == [](C30_NoArtifactAfterFailure) /\ [][C30_RecoveryAttempts]_vars

(***************************************************************************)
(* Properties of the fetch-patches command, checked under SpecMain.         *)
(***************************************************************************)
\* the step is the command's call of fetch_and_parse_threads
Commanded == mpc = "cli" /\ mpc' # "cli"

\* C29: the date given as --start-date is the cursor the crawl starts from and
\* the date given as --end-date is the cutoff: a run with --start-date newer
\* than --end-date passes the validation, and a run without --start-date
\* starts at the live head.
C29_ArgumentOrder ==
    (Commanded /\ (args_start_date = <<>> \/ args_start_date[1] > args_end_date[1])) =>
        /\ mpc' = "crawling"
        /\ start_date' = IF args_start_date = <<>> THEN Base ELSE args_start_date[1]
        /\ cutoff_date' = args_end_date[1]

C29_Theorem == [][C29_ArgumentOrder]_vars

(***************************************************************************)
(* Properties of the worker pool, checked under SpecPool.                   *)
(***************************************************************************)
\* both calls of the pool have returned
PoolDone == \A w \in Workers : pool[w].pc = "done"

\* the sanitized titles of the two threads differ
DistinctTitles == ThreadNames[thread_data[1]].dir # ThreadNames[thread_data[2]].dir

\* the two calls run one after the other, a before b, on what the pool began
\* with, each with the answers its call met in the pool
Sequential(a, b) ==
    LET first == RunCall(fs0.dirs, fs0.files, thread_data[a], pool[a].met)
        second == RunCall(first.dirs, first.files, thread_data[b], pool[b].met)
    IN  [dirs |-> second.dirs, files |-> second.files, ret |-> (a :> first.ret) @@ (b :> second.ret)]

\* C28, the end: whatever the interleaving, the pool leaves the directories
\* and files, and each call returns the value, of the two calls run one after
\* the other, in either order.
C28_SameAsSequential ==
    (PoolDone /\ DistinctTitles) =>
        \A order \in {<<1, 2>>, <<2, 1>>} :
            LET sq == Sequential(order[1], order[2])
            IN  /\ dirs = sq.dirs
                /\ files = sq.files
                /\ \A w \in Workers : pool[w].ret = sq.ret[w]

\* C28, the step: a step of one call changes no file in the directory of the other.
C28_OwnDirectoryOnly ==
    DistinctTitles =>
        \A w \in Workers :
            pool'[w] = pool[w] =>
                {f \in files' : f.dir = ThreadNames[thread_data[w]].dir} =
                    {f \in files : f.dir = ThreadNames[thread_data[w]].dir}

\* C28: two calls for threads with different sanitized titles work on disjoint
\* directories, and under every interleaving their return values and the
\* files they leave are those of the two calls run one after the other.
C28_Theorem == [](C28_SameAsSequential) /\ [][C28_OwnDirectoryOnly]_vars

\* two calls that overlapped, one retried, one failed and one downloaded its thread
C28_Witness ==
    /\ PoolDone
    /\ DistinctTitles
    /\ overlapped
    /\ busy = MaxBusy
    /\ pool[1].ret = PyNone
    /\ pool[2].ret = PyPath(ThreadNames[thread_data[2]].dir)
    /\ Len(pool[1].met) > 0
    /\ Len(pool[2].met) > 0
    /\ phase = "done"

(***************************************************************************)
(* Properties of the cache fast-forward, checked under SpecResume and       *)
(* SpecCrawl.                                                               *)
(***************************************************************************)
\* the pass in which the crawler fast-forwards: lines 265-271 clear the flag
FastForward == cpc = "loop" /\ checkForCachedData /\ ~checkForCachedData'

\* the cursor of the next link that the fast-forward replaces
JumpedFrom == next_link(soup'[1])[1]

\* the pages the fast-forward passes over: from the replaced cursor down to, and
\* without, the oldest cached cursor
SkippedPages == {c \in Cursors : oldestCachedPage < c /\ c <= JumpedFrom}

\* the pages of the requested range: from the start page, or the base page, down to the cutoff
InRange ==
    {c \in Cursors : (c = Base => start_date = Base) /\ (start_date # Base => c <= start_date)
                     /\ (c # Base => c >= cutoff_date)}

\* the run returned at the cutoff or at the last page of the site
EndedClean == cpc = "returned" /\ exit \in {"cutoff", "no_next"}

\* C31, the pages: every page a fast-forward passes over has an entry in the cache.
C31_SkippedAreCached == FastForward => \A c \in SkippedPages : c \in CachePages(cache')

\* C31, the range: a run that ended at the cutoff or at the last page returns
\* every thread that a page of the requested range shows.
C31_NoThreadLost ==
    EndedClean => \A c \in InRange : Range(extract_topic_threads(site, c)) \subseteq Range(crawl_data)

\* C31: when the crawler fast-forwards, every page it skips has an entry in
\* the cache, and no uncached page of the requested range is left unfetched,
\* also over a cache that holds two disjoint ranges of cursors.
C31_Theorem == [][C31_SkippedAreCached]_vars /\ [](C31_NoThreadLost)

\* C32, once: within a crawl the flag of the fast-forward, once cleared, stays cleared.
C32_AtMostOnce == (cpc = "loop" /\ ~checkForCachedData) => ~checkForCachedData'

\* C32, the direction: the cursor the fast-forward jumps to is not newer than
\* the cursor of the next link it replaces.
C32_TowardOlder == FastForward => next_page' <= JumpedFrom

\* C32, the sequence: the page fetched after a page that answered is older than it.
C32_Decreasing ==
    (Processed /\ cpc' = "loop") => (next_page' # Base /\ (next_page # Base => next_page' < next_page))

\* C32: the fast-forward happens at most once in a crawl and only moves the
\* cursor toward older pages, so the cursors of the pages fetched in one run
\* are strictly decreasing and no page is fetched twice.
C32_Theorem == [][C32_AtMostOnce]_vars /\ [][C32_TowardOlder]_vars /\ [][C32_Decreasing]_vars

=============================================================================
